---------------------------- MODULE Spec2Model ----------------------------
(***************************************************************************)
(* The in-memory file tree (FileSystemContext.tsx) and the editor tab      *)
(* store (EditorContext.tsx) of the IDE shell, as a state machine.         *)
(*                                                                         *)
(* Representation.                                                         *)
(*  - A JavaScript string the code computes with (a name, a path) is a     *)
(*    sequence of one-character strings, so that split, join, replace and  *)
(*    toLowerCase are computed character by character.  A string the code  *)
(*    only stores and compares (an id, a file's content, a language name,  *)
(*    a log message) is a TLA+ string.                                     *)
(*  - A FileSystemItem is a record; `children` is a sequence of records.   *)
(*    An absent `children` (a file) is the empty sequence: the code reads  *)
(*    it only as (item.children || []) or skips the loop.  An absent       *)
(*    boolean (isOpen, isModified) is FALSE: the code reads it only for    *)
(*    truthiness.  An absent string field is Undefined.                    *)
(*  - generateId() draws up to 7 base-36 digits from Math.random and       *)
(*    nothing compares the result with the ids in use; a call yields any   *)
(*    id of a small pool, one handed out before included.                  *)
(*  - Every React state update of one handler is one atomic step; the      *)
(*    effect that persists the tabs runs at the end of the step.           *)
(***************************************************************************)
EXTENDS Integers, Sequences, FiniteSets, TLC

VARIABLES
  files,          \* FileSystemProvider: useState(initialFileSystem)
  selectedFile,   \* FileSystemProvider: selected file id or Null
  logs,           \* FileSystemProvider: log entries
  nextId,         \* how many ids generateId has handed out
  openedTabs,     \* EditorProvider: ordered tab list
  activeTabId,    \* EditorProvider: active tab id or Null
  undoStack,      \* EditorProvider: history actions, newest last
  redoStack,      \* EditorProvider: undone actions, newest last
  sessionStorage, \* the browser's key-value session store
  steps,          \* number of operations performed (bounds the run)
  lastOp,         \* history variable: the operation performed last
  lastHist,       \* history variable: the last undo-history operation
  importState     \* GithubRepoLoader: where handleImport is waiting

vars == <<files, selectedFile, logs, nextId, openedTabs, activeTabId,
          undoStack, redoStack, sessionStorage, steps, lastOp, lastHist,
          importState>>

treeVars == <<files, selectedFile, logs, nextId>>
editorVars == <<openedTabs, activeTabId, undoStack, redoStack, sessionStorage>>

Null == "null"
Undefined == "undefined"

-----------------------------------------------------------------------------
(* Bounds of the model.                                                    *)

\* operations per run under SpecCRM (create / rename / move only)
MaxCRMSteps == 2
\* operations per run under SpecTree (every Tree Store operation)
MaxTreeSteps == 2
\* operations per run under SpecEditor
MaxEditorSteps == 6
\* calls of generateId in one run
MaxNewIds == 3
\* operations per run under SpecDelete (create / delete / select only)
MaxDeleteSteps == 3
\* operations per run under SpecCross (operations of both stores)
MaxCrossSteps == 3
MaxSearchSteps == 2
MaxSessionSteps == 6
MaxImportSteps == 9
MaxMoveSteps == 4

-----------------------------------------------------------------------------
(* JavaScript string primitives, on sequences of characters.               *)

Slash == <<"/">>
Dot == <<".">>

\* s.substring(i-1): the characters of s from position i (1-based) on
Drop(s, i) == SubSeq(s, i, Len(s))

RECURSIVE IndexOfFrom(_, _, _)
\* String.prototype.indexOf, 1-based; 0 when pat does not occur
IndexOfFrom(s, pat, i) ==
  IF i + Len(pat) - 1 > Len(s) THEN 0
  ELSE IF SubSeq(s, i, i + Len(pat) - 1) = pat THEN i
  ELSE IndexOfFrom(s, pat, i + 1)

indexOf(s, pat) == IndexOfFrom(s, pat, 1)

RECURSIVE split(_, _)
\* String.prototype.split with a non-empty separator
split(s, sep) ==
  LET i == indexOf(s, sep)
  IN  IF i = 0 THEN <<s>>
      ELSE <<SubSeq(s, 1, i - 1)>> \o split(Drop(s, i + Len(sep)), sep)

RECURSIVE join(_, _)
\* Array.prototype.join
join(parts, sep) ==
  IF parts = <<>> THEN <<>>
  ELSE IF Len(parts) = 1 THEN parts[1]
  ELSE parts[1] \o sep \o join(Tail(parts), sep)

RECURSIVE GetSubstitution(_, _, _)
\* ECMAScript GetSubstitution for a string pattern (no capture groups):
\* in the replacement text, dollar-dollar is a dollar sign, dollar-ampersand
\* the match and dollar-apostrophe the text after it; any other dollar sign
\* stands for itself.  (Dollar-backtick, the text before the match, is left
\* out: no name or path of the model holds a backtick.)
GetSubstitution(repl, matched, after) ==
  IF repl = <<>> THEN <<>>
  ELSE IF Head(repl) = "$" /\ Len(repl) >= 2 /\ repl[2] \in {"$", "&", "'"}
  THEN (CASE repl[2] = "$" -> <<"$">>
          [] repl[2] = "&" -> matched
          [] OTHER         -> after)
       \o GetSubstitution(Drop(repl, 3), matched, after)
  ELSE <<Head(repl)>> \o GetSubstitution(Tail(repl), matched, after)

\* String.prototype.replace(pattern: string, replacement: string): only the
\* first occurrence of the pattern, wherever it is, is replaced
replace(s, pat, repl) ==
  LET i == indexOf(s, pat)
  IN  IF i = 0 THEN s
      ELSE LET before == SubSeq(s, 1, i - 1)
               after  == Drop(s, i + Len(pat))
           IN  before \o GetSubstitution(repl, pat, after) \o after

UpperCase == <<"A","B","C","D","E","F","G","H","I","J","K","L","M",
               "N","O","P","Q","R","S","T","U","V","W","X","Y","Z">>
LowerCase == <<"a","b","c","d","e","f","g","h","i","j","k","l","m",
               "n","o","p","q","r","s","t","u","v","w","x","y","z">>

\* String.prototype.toLowerCase
toLowerCase(s) ==
  [i \in 1..Len(s) |->
     IF \E k \in 1..26 : UpperCase[k] = s[i]
     THEN LowerCase[CHOOSE k \in 1..26 : UpperCase[k] = s[i]]
     ELSE s[i]]

-----------------------------------------------------------------------------
(* getLanguageFromExtension                                                *)

extensionMap ==
  << <<<<"h", "t", "m", "l">>, "html">>,
     <<<<"h", "t", "m">>, "html">>,
     <<<<"c", "s", "s">>, "css">>,
     <<<<"s", "c", "s", "s">>, "scss">>,
     <<<<"s", "a", "s", "s">>, "sass">>,
     <<<<"l", "e", "s", "s">>, "less">>,
     <<<<"j", "s">>, "javascript">>,
     <<<<"j", "s", "x">>, "javascript">>,
     <<<<"t", "s">>, "typescript">>,
     <<<<"t", "s", "x">>, "typescript">>,
     <<<<"j", "s", "o", "n">>, "json">>,
     <<<<"p", "y">>, "python">>,
     <<<<"p", "y", "c">>, "python">>,
     <<<<"p", "y", "d">>, "python">>,
     <<<<"p", "y", "o">>, "python">>,
     <<<<"j", "a", "v", "a">>, "java">>,
     <<<<"c">>, "c">>,
     <<<<"c", "p", "p">>, "cpp">>,
     <<<<"h">>, "c">>,
     <<<<"h", "p", "p">>, "cpp">>,
     <<<<"c", "s">>, "csharp">>,
     <<<<"r", "b">>, "ruby">>,
     <<<<"p", "h", "p">>, "php">>,
     <<<<"g", "o">>, "go">>,
     <<<<"r", "s">>, "rust">>,
     <<<<"s", "w", "i", "f", "t">>, "swift">>,
     <<<<"k", "t">>, "kotlin">>,
     <<<<"s", "h">>, "shell">>,
     <<<<"b", "a", "s", "h">>, "bash">>,
     <<<<"s", "q", "l">>, "sql">>,
     <<<<"m", "d">>, "markdown">>,
     <<<<"y", "m", "l">>, "yaml">>,
     <<<<"y", "a", "m", "l">>, "yaml">>,
     <<<<"x", "m", "l">>, "xml">>,
     <<<<"t", "o", "m", "l">>, "toml">>,
     <<<<"i", "n", "i">>, "ini">>,
     <<<<"g", "r", "a", "p", "h", "q", "l">>, "graphql">>,
     <<<<"d", "o", "c", "k", "e", "r", "f", "i", "l", "e">>, "dockerfile">> >>

getLanguageFromExtension(filename) ==
  LET parts     == split(filename, Dot)
      extension == toLowerCase(parts[Len(parts)])
      hits      == {k \in 1..Len(extensionMap) : extensionMap[k][1] = extension}
  IN  IF hits = {} THEN "plaintext" ELSE extensionMap[CHOOSE k \in hits : TRUE][2]

-----------------------------------------------------------------------------
(* The file tree: FileSystemItem and initialFileSystem.                    *)

\* The sample files' contents.  The code never looks inside a content: it
\* stores it, compares it and tests it for emptiness, so each sample text
\* is written as a short non-empty token.
content_button == "<Button.tsx source>"
content_app == "<App.tsx source>"
content_index == "<index.tsx source>"
content_package == "<package.json source>"
content_readme == "<README.md source>"

Folder(id, name, path, isOpen, parentId, children) ==
  [id |-> id, name |-> name, type |-> "folder", content |-> Undefined,
   language |-> Undefined, children |-> children, path |-> path,
   isOpen |-> isOpen, isModified |-> FALSE, parentId |-> parentId]

File(id, name, path, language, content, parentId) ==
  [id |-> id, name |-> name, type |-> "file", content |-> content,
   language |-> language, children |-> <<>>, path |-> path,
   isOpen |-> FALSE, isModified |-> FALSE, parentId |-> parentId]

N_my_project == <<"m","y","-","p","r","o","j","e","c","t">>
N_src == <<"s","r","c">>
N_components == <<"c","o","m","p","o","n","e","n","t","s">>
N_Button_tsx == <<"B","u","t","t","o","n",".","t","s","x">>
N_App_tsx == <<"A","p","p",".","t","s","x">>
N_index_tsx == <<"i","n","d","e","x",".","t","s","x">>
N_package_json == <<"p","a","c","k","a","g","e",".","j","s","o","n">>
N_README_md == <<"R","E","A","D","M","E",".","m","d">>
N_new_project == <<"n","e","w","-","p","r","o","j","e","c","t">>

initialFileSystem ==
  << Folder("root", N_my_project, Slash \o N_my_project, TRUE, Undefined,
      << Folder("src", N_src, Slash \o N_my_project \o Slash \o N_src, TRUE, "root",
          << Folder("components", N_components,
                    Slash \o N_my_project \o Slash \o N_src \o Slash \o N_components,
                    FALSE, "src",
              << File("button", N_Button_tsx,
                      Slash \o N_my_project \o Slash \o N_src \o Slash
                        \o N_components \o Slash \o N_Button_tsx,
                      "typescript", content_button, "components") >>),
             File("app", N_App_tsx,
                  Slash \o N_my_project \o Slash \o N_src \o Slash \o N_App_tsx,
                  "typescript", content_app, "src"),
             File("index", N_index_tsx,
                  Slash \o N_my_project \o Slash \o N_src \o Slash \o N_index_tsx,
                  "typescript", content_index, "src") >>),
         File("package", N_package_json,
              Slash \o N_my_project \o Slash \o N_package_json,
              "json", content_package, "root"),
         File("readme", N_README_md,
              Slash \o N_my_project \o Slash \o N_README_md,
              "markdown", content_readme, "root") >>) >>

\* The ids Math.random().toString(36).substring(2, 9) may give
GeneratedIds == {"n1", "n2"}

\* what a call of generateId may return
generateId == GeneratedIds

RECURSIVE findItemById(_, _)
\* the first item with this id in depth-first pre-order: <<item>>, or <<>>
findItemById(items, id) ==
  IF items = <<>> THEN <<>>
  ELSE LET file  == Head(items)
           found == findItemById(file.children, id)
       IN  IF file.id = id THEN <<file>>
           ELSE IF found # <<>> THEN found
           ELSE findItemById(Tail(items), id)

RECURSIVE findParentById(_, _)
\* the first item, in depth-first pre-order, one of whose children has this id
findParentById(items, childId) ==
  IF items = <<>> THEN <<>>
  ELSE LET file  == Head(items)
           found == findParentById(file.children, childId)
       IN  IF \E k \in 1..Len(file.children) : file.children[k].id = childId
           THEN <<file>>
           ELSE IF found # <<>> THEN found
           ELSE findParentById(Tail(items), childId)

createEmptyFileSystem(rootName) ==
  << Folder("root", rootName, Slash \o rootName, TRUE, Undefined, <<>>) >>

getFileById(id) == findItemById(files, id)

-----------------------------------------------------------------------------
(* createFile                                                              *)

newItem(newId, name, type, path, parentId) ==
  IF type = "folder"
  THEN Folder(newId, name, path, FALSE, parentId, <<>>)
  ELSE File(newId, name, path, getLanguageFromExtension(name), "", parentId)

RECURSIVE findAndAddToParent(_, _, _, _, _)
\* [items |-> the array after the call, added |-> what the call returns]
findAndAddToParent(items, parentPath, newId, name, type) ==
  IF items = <<>> THEN [items |-> <<>>, added |-> FALSE]
  ELSE
    LET item == Head(items) IN
    IF item.path = parentPath
    THEN [items |-> << [item EXCEPT !.children =
                          Append(@, newItem(newId, name, type,
                                            parentPath \o Slash \o name, item.id))] >>
                    \o Tail(items),
          added |-> TRUE]
    ELSE
      LET sub == findAndAddToParent(item.children, parentPath, newId, name, type) IN
      IF sub.added
      THEN [items |-> << [item EXCEPT !.children = sub.items] >> \o Tail(items),
            added |-> TRUE]
      ELSE
        LET rest == findAndAddToParent(Tail(items), parentPath, newId, name, type)
        IN  [items |-> <<item>> \o rest.items, added |-> rest.added]

\* the files state after createFile's setFiles updater
createFile_files(prevFiles, parentPath, newId, name, type) ==
  findAndAddToParent(prevFiles, parentPath, newId, name, type).items

-----------------------------------------------------------------------------
(* renameFile                                                              *)

RECURSIVE updateChildrenPaths(_, _, _)
\* the children of parentItem after updateChildrenPaths(parentItem, ...)
updateChildrenPaths(children, oldParentPath, newParentPath) ==
  [k \in 1..Len(children) |->
     [children[k] EXCEPT
        !.path = replace(@, oldParentPath, newParentPath),
        !.children = updateChildrenPaths(@, oldParentPath, newParentPath)]]

\* the item with id = id after the body of `if (item.id === id)`
renamedItem(item, newName) ==
  LET oldPathParts == split(item.path, Slash)
      newPath == join([oldPathParts EXCEPT ![Len(oldPathParts)] = newName], Slash)
      \* item.name and item.path are assigned here ...
      named == [item EXCEPT
                  !.name = newName,
                  !.path = newPath,
                  !.language = IF item.type = "file"
                               THEN getLanguageFromExtension(newName) ELSE @]
      \* ... and oldItemPath is computed from them afterwards
      parts == split(named.path, Slash)
      oldItemPath == join(SubSeq(parts, 1, Len(parts) - 1), Slash) \o Slash \o named.name
  IN  [named EXCEPT !.children = updateChildrenPaths(@, oldItemPath, newPath)]

RECURSIVE renameFile_updateItem(_, _, _)
\* [items |-> the array after the call, updated |-> what the call returns]
renameFile_updateItem(items, id, newName) ==
  IF items = <<>> THEN [items |-> <<>>, updated |-> FALSE]
  ELSE
    LET item == Head(items) IN
    IF item.id = id
    THEN [items |-> <<renamedItem(item, newName)>> \o Tail(items), updated |-> TRUE]
    ELSE
      LET sub == renameFile_updateItem(item.children, id, newName) IN
      IF sub.updated
      THEN [items |-> << [item EXCEPT !.children = sub.items] >> \o Tail(items),
            updated |-> TRUE]
      ELSE
        LET rest == renameFile_updateItem(Tail(items), id, newName)
        IN  [items |-> <<item>> \o rest.items, updated |-> rest.updated]

\* A variant of renameFile's updater that rewrites paths by substring
\* replacement in every item of the forest instead of below the renamed item
\* only: the prefix-boundary hazard ("src" beside "src-backup").
renameFile_files_everywhere(prevFiles, id, newName) ==
  LET target  == findItemById(prevFiles, id)
      renamed == renameFile_updateItem(prevFiles, id, newName).items
  IN  IF target = <<>> THEN prevFiles
      ELSE updateChildrenPaths(renamed, target[1].path,
                               findItemById(renamed, id)[1].path)

\* the files state after renameFile's setFiles updater
renameFile_files(prevFiles, id, newName) ==
  renameFile_updateItem(prevFiles, id, newName).items

-----------------------------------------------------------------------------
(* deleteFile                                                              *)

RECURSIVE deleteFile_removeItem(_, _)
\* [items |-> the array after the call, removed |-> what the call returns]
deleteFile_removeItem(items, id) ==
  IF items = <<>> THEN [items |-> <<>>, removed |-> FALSE]
  ELSE
    LET item == Head(items) IN
    IF item.id = id
    THEN [items |-> Tail(items), removed |-> TRUE]
    ELSE
      LET sub == deleteFile_removeItem(item.children, id) IN
      IF sub.removed
      THEN [items |-> << [item EXCEPT !.children = sub.items] >> \o Tail(items),
            removed |-> TRUE]
      ELSE
        LET rest == deleteFile_removeItem(Tail(items), id)
        IN  [items |-> <<item>> \o rest.items, removed |-> rest.removed]

\* A variant of deleteFile's updater without the `id !== 'root'` guard.
deleteFile_files_unguarded(prevFiles, id) ==
  deleteFile_removeItem(prevFiles, id).items

\* the files state after deleteFile's setFiles updater
deleteFile_files(prevFiles, id) ==
  IF id # "root" THEN deleteFile_removeItem(prevFiles, id).items ELSE prevFiles

-----------------------------------------------------------------------------
(* updateFileContent, toggleFolder                                         *)

\* A variant of isContentChanged that flags every write.
isContentChanged_always(item, content) == TRUE

\* const isContentChanged = item.content !== content
isContentChanged(item, content) == item.content # content

RECURSIVE updateFileContent_updateItem(_, _, _)
updateFileContent_updateItem(items, id, content) ==
  IF items = <<>> THEN [items |-> <<>>, updated |-> FALSE]
  ELSE
    LET item == Head(items) IN
    IF item.id = id /\ item.type = "file"
    THEN [items |-> << [item EXCEPT !.content = content,
                                    !.isModified = isContentChanged(item, content)] >>
                    \o Tail(items),
          updated |-> TRUE]
    ELSE
      LET sub == updateFileContent_updateItem(item.children, id, content) IN
      IF sub.updated
      THEN [items |-> << [item EXCEPT !.children = sub.items] >> \o Tail(items),
            updated |-> TRUE]
      ELSE
        LET rest == updateFileContent_updateItem(Tail(items), id, content)
        IN  [items |-> <<item>> \o rest.items, updated |-> rest.updated]

\* A variant of updateFileContent's updater that never writes the item.
updateFileContent_files_skipped(prevFiles, id, content) == prevFiles

\* the files state after updateFileContent's setFiles updater
updateFileContent_files(prevFiles, id, content) ==
  updateFileContent_updateItem(prevFiles, id, content).items

RECURSIVE toggleFolder_toggleItem(_, _)
toggleFolder_toggleItem(items, id) ==
  IF items = <<>> THEN [items |-> <<>>, toggled |-> FALSE]
  ELSE
    LET item == Head(items) IN
    IF item.id = id /\ item.type = "folder"
    THEN [items |-> << [item EXCEPT !.isOpen = ~@] >> \o Tail(items),
          toggled |-> TRUE]
    ELSE
      LET sub == toggleFolder_toggleItem(item.children, id) IN
      IF sub.toggled
      THEN [items |-> << [item EXCEPT !.children = sub.items] >> \o Tail(items),
            toggled |-> TRUE]
      ELSE
        LET rest == toggleFolder_toggleItem(Tail(items), id)
        IN  [items |-> <<item>> \o rest.items, toggled |-> rest.toggled]

\* the files state after toggleFolder's setFiles updater
toggleFolder_files(prevFiles, id) == toggleFolder_toggleItem(prevFiles, id).items

-----------------------------------------------------------------------------
(* moveFile                                                                *)

RECURSIVE posOfItemFrom(_, _, _)
\* where findItemById finds its item: the indices leading to the first item
\* with this id in depth-first pre-order, looking from items[k] on; <<>> if none
posOfItemFrom(items, id, k) ==
  IF k > Len(items) THEN <<>>
  ELSE IF items[k].id = id THEN <<k>>
  ELSE LET found == posOfItemFrom(items[k].children, id, 1)
       IN  IF found # <<>> THEN <<k>> \o found
           ELSE posOfItemFrom(items, id, k + 1)

RECURSIVE posOfParentFrom(_, _, _)
\* where findParentById finds its item, in the same way
posOfParentFrom(items, childId, k) ==
  IF k > Len(items) THEN <<>>
  ELSE IF \E j \in 1..Len(items[k].children) : items[k].children[j].id = childId
  THEN <<k>>
  ELSE LET found == posOfParentFrom(items[k].children, childId, 1)
       IN  IF found # <<>> THEN <<k>> \o found
           ELSE posOfParentFrom(items, childId, k + 1)

\* whether position p is position q or lies below it
IsAtOrBelow(p, q) == Len(q) <= Len(p) /\ SubSeq(p, 1, Len(q)) = q

RECURSIVE updateChildPaths(_, _, _)
\* the children of item after updateChildPaths(item, oldBasePath, newBasePath)
updateChildPaths(children, oldBasePath, newBasePath) ==
  [k \in 1..Len(children) |->
     [children[k] EXCEPT
        !.path = replace(@, oldBasePath, newBasePath),
        !.children = updateChildPaths(@, oldBasePath, newBasePath)]]

\* fileToMove after lines 530-544: its new path and parentId, and the paths
\* below it rewritten
movedItem(fileToMove, newParent, newParentId) ==
  LET oldPath == fileToMove.path
      newPath == newParent.path \o Slash \o fileToMove.name
  IN  [fileToMove EXCEPT !.path = newPath,
                         !.parentId = newParentId,
                         !.children = updateChildPaths(@, oldPath, newPath)]

\* An item that has become one of its own descendants: the reference back to
\* the moved item, where line 547 appended it inside its own subtree.
BackReference(item) == [item EXCEPT !.type = "cycle", !.children = <<>>]

RECURSIVE moveFile_mutated(_, _, _)
\* The items of one children array after the updater's assignments, which are
\* made to three objects:  currentParent (at m.pParent) loses every child of
\* id m.fileId (527), fileToMove (at m.pFile) becomes m.moved and the items
\* below it get their paths rewritten (530-544), and newParent (at m.pNew)
\* gets fileToMove appended (547).  `here` is the position of the array's
\* owner.
moveFile_mutated(items, here, m) ==
  [k \in 1..Len(items) |->
     LET pos   == Append(here, k)
         item  == IF pos = m.pFile THEN m.moved
                  ELSE IF IsAtOrBelow(pos, m.pFile)
                  THEN [items[k] EXCEPT !.path = replace(@, m.oldPath, m.moved.path)]
                  ELSE items[k]
         below == moveFile_mutated(items[k].children, pos, m)
         kept  == IF pos = m.pParent
                  THEN SelectSeq(below, LAMBDA child : child.id # m.fileId)
                  ELSE below
         all   == IF pos = m.pNew
                  THEN Append(kept, IF IsAtOrBelow(m.pNew, m.pFile)
                                    THEN BackReference(m.moved) ELSE m.moved)
                  ELSE kept
     IN  [item EXCEPT !.children = all]]

\* the files state after moveFile's setFiles updater.  The updater mutates
\* the items in place.  When ids are unique, fileToMove leaves its parent's
\* children and is appended to newParent.children; when newParent is then the
\* moved item or lies below it, that array is no longer reachable from
\* `files`, and the moved subtree is gone from the tree.  When another item
\* has fileToMove's id, findParentById may find that item's parent:  then
\* fileToMove also stays where it was, as the same object (the model holds
\* an equal copy in each place).
moveFile_files(prevFiles, fileId, newParentId) ==
  LET fileToMove    == findItemById(prevFiles, fileId)
      newParent     == findItemById(prevFiles, newParentId)
      currentParent == findParentById(prevFiles, fileId)
  IN  IF fileToMove = <<>> THEN prevFiles
      ELSE IF newParent = <<>> \/ newParent[1].type # "folder" THEN prevFiles
      ELSE IF currentParent = <<>> THEN prevFiles
      ELSE moveFile_mutated(prevFiles, <<>>,
             [fileId  |-> fileId,
              pFile   |-> posOfItemFrom(prevFiles, fileId, 1),
              pParent |-> posOfParentFrom(prevFiles, fileId, 1),
              pNew    |-> posOfItemFrom(prevFiles, newParentId, 1),
              oldPath |-> fileToMove[1].path,
              moved   |-> movedItem(fileToMove[1], newParent[1], newParentId)])

-----------------------------------------------------------------------------
(* searchFiles                                                             *)

\* the white space String.prototype.trim removes, as far as the queries of
\* the model hold it
WhiteSpace == {" ", "\t"}

RECURSIVE trimStart(_)
trimStart(s) ==
  IF s # <<>> /\ Head(s) \in WhiteSpace THEN trimStart(Tail(s)) ELSE s

RECURSIVE trimEnd(_)
trimEnd(s) ==
  IF s # <<>> /\ s[Len(s)] \in WhiteSpace THEN trimEnd(SubSeq(s, 1, Len(s) - 1)) ELSE s

\* String.prototype.trim
trim(s) == trimEnd(trimStart(s))

\* String.prototype.includes
includes(s, pat) == indexOf(s, pat) # 0

RECURSIVE searchInItems(_, _)
\* what one call of searchInItems pushes onto results, in order
searchInItems(items, searchQuery) ==
  IF items = <<>> THEN <<>>
  ELSE
    LET item == Head(items) IN
    (IF includes(toLowerCase(item.name), searchQuery) THEN <<item>> ELSE <<>>)
    \o (IF item.type = "folder" THEN searchInItems(item.children, searchQuery) ELSE <<>>)
    \o searchInItems(Tail(items), searchQuery)

searchFiles(items, query) ==
  IF trim(query) = <<>> THEN <<>>
  ELSE searchInItems(items, toLowerCase(query))

-----------------------------------------------------------------------------
(* The editor tab store: TabInfo, EditorHistoryAction, session storage.    *)

TabInfo(id, name, language, path, isModified, content) ==
  [id |-> id, name |-> name, language |-> language, path |-> path,
   isModified |-> isModified, content |-> content]

\* stands for an absent tabInfo field of an EditorHistoryAction
NoTabInfo == TabInfo(Undefined, <<>>, Undefined, <<>>, FALSE, Undefined)

\* A variant of the content action with the two buffers exchanged.
ContentAction_exchanged(tabId, previousContent, content) ==
  [type |-> "content", tabId |-> tabId, content |-> previousContent,
   previousContent |-> content, tabInfo |-> NoTabInfo]

ContentAction(tabId, previousContent, content) ==
  [type |-> "content", tabId |-> tabId, content |-> content,
   previousContent |-> previousContent, tabInfo |-> NoTabInfo]

TabAction(tabId, tabInfo) ==
  [type |-> "tab", tabId |-> tabId, content |-> Undefined,
   previousContent |-> Undefined, tabInfo |-> tabInfo]

\* sessionStorage.  tabs: <<>> while the key code-editor-tabs is unset,
\* else <<the stored tab list>>.  active: the key code-editor-active-tab, or
\* Null.  content: the keys code-editor-tab-<id>, a function on the ids set.
EmptyStorage == [tabs |-> <<>>, active |-> Null, content |-> <<>>]

getItemContent(storage, tabId) ==
  IF tabId \in DOMAIN storage.content THEN storage.content[tabId] ELSE Null

setItemContent(storage, tabId, content) ==
  [storage EXCEPT !.content =
     [k \in (DOMAIN storage.content) \cup {tabId} |->
        IF k = tabId THEN content ELSE storage.content[k]]]

removeItemContent(storage, tabId) ==
  [storage EXCEPT !.content =
     [k \in (DOMAIN storage.content) \ {tabId} |-> storage.content[k]]]

TabMeta(tab) ==
  [id |-> tab.id, name |-> tab.name, language |-> tab.language,
   path |-> tab.path, isModified |-> tab.isModified]

RECURSIVE saveTabContents(_, _)
\* openedTabs.forEach(tab => sessionStorage.setItem(prefix + tab.id, tab.content))
saveTabContents(storage, tabs) ==
  IF tabs = <<>> THEN storage
  ELSE saveTabContents(
         IF Head(tabs).content # Undefined
         THEN setItemContent(storage, Head(tabs).id, Head(tabs).content)
         ELSE storage,
         Tail(tabs))

\* an entry of the tab list that is undefined
UndefinedTab == [undefined |-> TRUE]

\* The effect on [openedTabs, activeTabId]: it runs after the render that
\* follows a handler, on the tab list and active tab the handler left.
\* Destructuring an undefined entry throws before the first setItem, and
\* the effect catches it.
saveEffect(storage, tabs, active) ==
  IF \E k \in 1..Len(tabs) : tabs[k] = UndefinedTab THEN storage ELSE
  LET withTabs == [storage EXCEPT !.tabs = << [k \in 1..Len(tabs) |-> TabMeta(tabs[k])] >>]
      withContents == saveTabContents(withTabs, tabs)
  IN  IF active # Null /\ active # ""
      THEN [withContents EXCEPT !.active = active]
      ELSE withContents

\* savedTabs.map(tab => ({...tab, content: savedContent || ''})) of the load
\* effect, on the tab list JSON.parse gives back
loadedTabs(storage) ==
  LET savedTabs == storage.tabs[1] IN
  [k \in 1..Len(savedTabs) |->
     LET tab == savedTabs[k]
         savedContent == getItemContent(storage, tab.id)
     IN  [id |-> tab.id, name |-> tab.name, language |-> tab.language,
          path |-> tab.path, isModified |-> tab.isModified,
          content |-> IF savedContent \in {Null, ""} THEN "" ELSE savedContent]]

\* openedTabs.find(t => t.id === tabId): <<tab>>, or <<>>
findTab(tabs, tabId) ==
  LET hits == {k \in 1..Len(tabs) : tabs[k].id = tabId}
  IN  IF hits = {} THEN <<>>
      ELSE <<tabs[CHOOSE k \in hits : \A j \in hits : k <= j]>>

getTabContent(tabId) ==
  LET tab == findTab(openedTabs, tabId)
      storedContent == getItemContent(sessionStorage, tabId)
      file == getFileById(tabId)
  IN  IF tab # <<>> /\ tab[1].content # Undefined THEN tab[1].content
      ELSE IF storedContent # Null THEN storedContent
      ELSE IF file # <<>> /\ file[1].content # Undefined THEN file[1].content
      ELSE ""

\* the tab openTab builds for a file item
newTab(file) ==
  TabInfo(file.id, file.name,
          IF file.language \in {Undefined, ""} THEN "plaintext" ELSE file.language,
          file.path, FALSE,
          IF file.content = Undefined THEN "" ELSE file.content)

\* A variant of openTab's updater that puts the new tab first.
openTab_tabs_prepended(tabs, file) ==
  IF findTab(tabs, file.id) = <<>> THEN <<newTab(file)>> \o tabs ELSE tabs

\* the tab list after openTab(file.id) found the file item
openTab_tabs(tabs, file) ==
  IF findTab(tabs, file.id) = <<>> THEN Append(tabs, newTab(file)) ELSE tabs

\* A variant of closeTab's choice that takes the first tab of the list as it
\* was before the close.
newActiveTab_unfiltered(tabs, tabId) ==
  IF Len(tabs) > 1 THEN tabs[1].id ELSE Null

\* closeTab's choice of the next active tab
newActiveTab(tabs, tabId) ==
  LET others == SelectSeq(tabs, LAMBDA tab : tab.id # tabId)
  IN  IF Len(tabs) > 1 /\ others # <<>> /\ others[1].id # ""
      THEN others[1].id ELSE Null

\* A variant of the content-branch test that asks for a truthy
\* previousContent, as the storage write below it does (line 300).
undoIsContent_truthy(lastAction) ==
  lastAction.type = "content" /\ lastAction.previousContent \notin {Undefined, ""}

\* A variant of slice(0, -1) that drops the oldest entry instead of the newest.
slice_0_m1_oldest(prev) == Tail(prev)

\* prev.slice(0, -1)
slice_0_m1(prev) == SubSeq(prev, 1, Len(prev) - 1)

\* whether undoLastAction takes its content branch / its tab branch
undoIsContent(lastAction) ==
  lastAction.type = "content" /\ lastAction.previousContent # Undefined

undoIsTab(lastAction) ==
  lastAction.type = "tab" /\ lastAction.tabInfo # NoTabInfo

\* A variant of undoLastAction's tab branch that reopens the tab as openTab
\* would, without the buffer and the modified flag of the snapshot.
undoTabs_reopened(tabs, lastAction) ==
  IF undoIsContent(lastAction)
  THEN [k \in 1..Len(tabs) |->
          IF tabs[k].id = lastAction.tabId
          THEN [tabs[k] EXCEPT !.content = lastAction.previousContent,
                               !.isModified = TRUE]
          ELSE tabs[k]]
  ELSE IF undoIsTab(lastAction)
  THEN Append(tabs, [lastAction.tabInfo EXCEPT !.content = "", !.isModified = FALSE])
  ELSE tabs

\* the tab list after undoLastAction performed lastAction's undo
undoTabs(tabs, lastAction) ==
  IF undoIsContent(lastAction)
  THEN [k \in 1..Len(tabs) |->
          IF tabs[k].id = lastAction.tabId
          THEN [tabs[k] EXCEPT !.content = lastAction.previousContent,
                               !.isModified = TRUE]
          ELSE tabs[k]]
  ELSE IF undoIsTab(lastAction)
  THEN Append(tabs, lastAction.tabInfo)
  ELSE tabs

\* the tab list after redoLastAction performed lastRedoAction again
redoTabs(tabs, lastRedoAction) ==
  IF lastRedoAction.type = "content"
  THEN [k \in 1..Len(tabs) |->
          IF tabs[k].id = lastRedoAction.tabId
          THEN [tabs[k] EXCEPT !.content = lastRedoAction.content,
                               !.isModified = TRUE]
          ELSE tabs[k]]
  ELSE IF lastRedoAction.type = "tab"
  THEN SelectSeq(tabs, LAMBDA tab : tab.id # lastRedoAction.tabId)
  ELSE tabs

\* Array.prototype.splice: the start it uses on an array of length len (a
\* negative start counts from the end)
spliceStart(len, start) ==
  IF start < 0 THEN (IF len + start < 0 THEN 0 ELSE len + start)
  ELSE IF start > len THEN len ELSE start

\* newTabs after the two splice calls of moveTab (indices 0-based, as the
\* caller passes them); when the first splice removes nothing, movedTab is
\* undefined and the second splice inserts it
moveTab_tabs(prevTabs, fromIndex, toIndex) ==
  LET from     == spliceStart(Len(prevTabs), fromIndex)
      movedTab == IF from < Len(prevTabs) THEN prevTabs[from + 1] ELSE UndefinedTab
      without  == SubSeq(prevTabs, 1, from) \o Drop(prevTabs, from + 2)
      to       == spliceStart(Len(without), toIndex)
  IN  SubSeq(without, 1, to) \o <<movedTab>> \o Drop(without, to + 1)

-----------------------------------------------------------------------------
(* History variables and the initial state.                                *)

\* lastOp: the operation performed last, its arguments, what it returned
\* (ret; results when it is a list of items) and the case it met (pre)
NoOp == [op |-> "none", id |-> Undefined, id2 |-> Undefined, name |-> <<>>,
         path |-> <<>>, type |-> Undefined, content |-> Undefined,
         ret |-> Undefined, pre |-> Undefined, results |-> <<>>,
         fromIndex |-> 0, toIndex |-> 0]

\* lastHist: the last operation on the undo history.  op is "update" or
\* "close" after updateTabContent / closeTab on an open tab (c0, c1: the
\* buffer before and after; tab: the tab as it was, index: its place in
\* the tab list), "update.undo" or
\* "close.undo" when undoLastAction came next, "update.undo.redo" when
\* redoLastAction came after that, and "other" otherwise.
NoHist == [op |-> "none", tabId |-> Undefined, c0 |-> Undefined,
           c1 |-> Undefined, tab |-> NoTabInfo, index |-> 0]

\* importState: pc is "idle" or the fetch handleImport awaits ("repo",
\* "contents", "dir", "file"); name is repoData.name; work holds the running
\* calls of processGithubContents, innermost first, each with the entries
\* from its current one on; seen and logsAt are history: the file entries
\* the import is done with, and the length of the log when it began
NoImport == [pc |-> "idle", name |-> <<>>, work |-> <<>>, seen |-> <<>>, logsAt |-> 0]

LogEntry(type, message, arg) == [type |-> type, message |-> message, arg |-> arg]

initialLogs ==
  << LogEntry("info", "IDE initialized successfully", <<>>),
     LogEntry("success", "Project files loaded", <<>>) >>

Init ==
  /\ files = initialFileSystem
  /\ selectedFile = Null
  /\ logs = initialLogs
  /\ nextId = 0
  /\ openedTabs = <<>>
  /\ activeTabId = Null
  /\ undoStack = <<>>
  /\ redoStack = <<>>
  /\ sessionStorage = saveEffect(EmptyStorage, <<>>, Null)
  /\ steps = 0
  /\ lastOp = NoOp
  /\ lastHist = NoHist
  /\ importState = NoImport

-----------------------------------------------------------------------------
(* The arguments the operations are called with.                           *)

N_docs == <<"d","o","c","s">>
N_src_backup == <<"s","r","c","-","b","a","c","k","u","p">>
P_nowhere == <<"/","n","o","w","h","e","r","e">>

NameInputs == {N_docs, N_README_md, N_src_backup}

\* the queries searchFiles is called with: empty, blank, "SRC", "m", "docs",
\* "xyz" and " s"
QueryInputs == {<<>>, <<" ", "\t">>, <<"S", "R", "C">>, <<"m">>, N_docs,
                <<"x", "y", "z">>, <<" ", "s">>}

\* the names renameFile is called with: those, and the empty string
RenameInputs == NameInputs \cup {<<>>}

ParentPathInputs ==
  { Slash \o N_my_project,
    Slash \o N_my_project \o Slash \o N_src,
    Slash \o N_my_project \o Slash \o N_README_md,
    Slash \o N_my_project \o Slash \o N_docs,
    P_nowhere }

TypeInputs == {"file", "folder"}

TreeIdInputs == {"root", "src", "components", "readme", "n1", "missing"}

ContentInputs == {"", "draft"}

RootNameInputs == {N_new_project, N_docs}

-----------------------------------------------------------------------------
(* Tree Store operations.                                                  *)

createFileAction(parentPath, name, type, newId) ==
  /\ nextId < MaxNewIds
  /\ newId \in generateId
  /\ files' = createFile_files(files, parentPath, newId, name, type)
  /\ selectedFile' = IF type = "file" THEN newId ELSE selectedFile
  /\ lastOp' = [NoOp EXCEPT !.op = "createFile", !.path = parentPath,
                            !.name = name, !.type = type, !.ret = newId]
  /\ nextId' = nextId + 1
  /\ UNCHANGED <<logs, editorVars, lastHist>>

renameFileAction(id, newName) ==
  /\ files' = renameFile_files(files, id, newName)
  /\ lastOp' = [NoOp EXCEPT !.op = "renameFile", !.id = id, !.name = newName]
  /\ UNCHANGED <<selectedFile, logs, nextId, editorVars, lastHist>>

deleteFileAction(id) ==
  /\ files' = deleteFile_files(files, id)
  /\ selectedFile' = IF selectedFile = id THEN Null ELSE selectedFile
  /\ lastOp' = [NoOp EXCEPT !.op = "deleteFile", !.id = id]
  /\ UNCHANGED <<logs, nextId, editorVars, lastHist>>

updateFileContentAction(id, content) ==
  /\ files' = updateFileContent_files(files, id, content)
  /\ lastOp' = [NoOp EXCEPT !.op = "updateFileContent", !.id = id, !.content = content]
  /\ UNCHANGED <<selectedFile, logs, nextId, editorVars, lastHist>>

selectFileAction(id) ==
  /\ selectedFile' = id
  /\ lastOp' = [NoOp EXCEPT !.op = "selectFile", !.id = id]
  /\ UNCHANGED <<files, logs, nextId, editorVars, lastHist>>

toggleFolderAction(id) ==
  /\ files' = toggleFolder_files(files, id)
  /\ lastOp' = [NoOp EXCEPT !.op = "toggleFolder", !.id = id]
  /\ UNCHANGED <<selectedFile, logs, nextId, editorVars, lastHist>>

moveFileAction(fileId, newParentId) ==
  /\ files' = moveFile_files(files, fileId, newParentId)
  /\ lastOp' = [NoOp EXCEPT !.op = "moveFile", !.id = fileId, !.id2 = newParentId]
  /\ UNCHANGED <<selectedFile, logs, nextId, editorVars, lastHist>>

resetFileSystemAction ==
  /\ files' = createEmptyFileSystem(N_new_project)
  /\ selectedFile' = Null
  /\ logs' = Append(logs, LogEntry("info", "File system reset to default empty state", <<>>))
  /\ lastOp' = [NoOp EXCEPT !.op = "resetFileSystem"]
  /\ UNCHANGED <<nextId, editorVars, lastHist>>

replaceFileSystemAction(newRootName) ==
  /\ files' = createEmptyFileSystem(newRootName)
  /\ selectedFile' = Null
  /\ logs' = Append(logs, LogEntry("info", "Prepared new file system for", newRootName))
  /\ lastOp' = [NoOp EXCEPT !.op = "replaceFileSystem", !.name = newRootName]
  /\ UNCHANGED <<nextId, editorVars, lastHist>>

\* one more operation has been performed; no fetch of an import returns
Tick(bound) == steps < bound /\ steps' = steps + 1 /\ importState' = importState

NextCRM ==
  \/ \E parentPath \in ParentPathInputs, name \in NameInputs, type \in TypeInputs,
          newId \in generateId :
       Tick(MaxCRMSteps) /\ createFileAction(parentPath, name, type, newId)
  \/ \E id \in TreeIdInputs, newName \in RenameInputs :
       Tick(MaxCRMSteps) /\ renameFileAction(id, newName)
  \/ \E fileId \in TreeIdInputs, newParentId \in TreeIdInputs :
       Tick(MaxCRMSteps) /\ moveFileAction(fileId, newParentId)

SpecCRM == Init /\ [][NextCRM]_vars

NextTree ==
  \/ \E parentPath \in ParentPathInputs, name \in NameInputs, type \in TypeInputs,
          newId \in generateId :
       Tick(MaxTreeSteps) /\ createFileAction(parentPath, name, type, newId)
  \/ \E id \in TreeIdInputs, newName \in NameInputs :
       Tick(MaxTreeSteps) /\ renameFileAction(id, newName)
  \/ \E id \in TreeIdInputs :
       Tick(MaxTreeSteps) /\ deleteFileAction(id)
  \/ \E id \in TreeIdInputs, content \in ContentInputs :
       Tick(MaxTreeSteps) /\ updateFileContentAction(id, content)
  \/ \E id \in TreeIdInputs :
       Tick(MaxTreeSteps) /\ selectFileAction(id)
  \/ \E id \in TreeIdInputs :
       Tick(MaxTreeSteps) /\ toggleFolderAction(id)
  \/ \E fileId \in TreeIdInputs, newParentId \in TreeIdInputs :
       Tick(MaxTreeSteps) /\ moveFileAction(fileId, newParentId)
  \/ Tick(MaxTreeSteps) /\ resetFileSystemAction
  \/ \E newRootName \in RootNameInputs :
       Tick(MaxTreeSteps) /\ replaceFileSystemAction(newRootName)

SpecTree == Init /\ [][NextTree]_vars

\* createFile with fewer arguments, deleteFile and selectFile
NextDelete ==
  \/ \E parentPath \in {Slash \o N_my_project, Slash \o N_my_project \o Slash \o N_src},
          name \in {N_docs, N_src_backup}, type \in TypeInputs, newId \in generateId :
       Tick(MaxDeleteSteps) /\ createFileAction(parentPath, name, type, newId)
  \/ \E id \in TreeIdInputs :
       Tick(MaxDeleteSteps) /\ deleteFileAction(id)
  \/ \E id \in TreeIdInputs :
       Tick(MaxDeleteSteps) /\ selectFileAction(id)

SpecDelete == Init /\ [][NextDelete]_vars

searchFilesAction(query) ==
  /\ lastOp' = [NoOp EXCEPT !.op = "searchFiles", !.name = query,
                            !.results = searchFiles(files, query)]
  /\ UNCHANGED <<treeVars, editorVars, lastHist>>

\* createFile and searchFiles
NextSearch ==
  \/ \E parentPath \in ParentPathInputs, name \in NameInputs, type \in TypeInputs,
          newId \in generateId :
       Tick(MaxSearchSteps) /\ createFileAction(parentPath, name, type, newId)
  \/ \E query \in QueryInputs :
       Tick(MaxSearchSteps) /\ searchFilesAction(query)

SpecSearch == Init /\ [][NextSearch]_vars

-----------------------------------------------------------------------------
(* Tab/Session Store operations.                                           *)

EditorIdInputs == {"readme", "app", "src", "missing"}

\* ids of the open tabs, and one id that has no tab
TabIdInputs == {openedTabs[k].id : k \in 1..Len(openedTabs)} \cup {"missing"}

openTabAction(fileId) ==
  LET file == getFileById(fileId) IN
  IF file = <<>> \/ file[1].type # "file"
  THEN /\ lastOp' = [NoOp EXCEPT !.op = "openTab", !.id = fileId, !.pre = "rejected"]
       /\ UNCHANGED <<treeVars, editorVars, lastHist>>
  ELSE
    LET existingTab == findTab(openedTabs, fileId)
        tabs1    == openTab_tabs(openedTabs, file[1])
        storage1 == IF existingTab = <<>>
                    THEN setItemContent(sessionStorage, fileId, newTab(file[1]).content)
                    ELSE sessionStorage
    IN  /\ openedTabs' = tabs1
        /\ activeTabId' = fileId
        /\ selectedFile' = fileId
        /\ sessionStorage' = saveEffect(storage1, tabs1, fileId)
        /\ lastOp' = [NoOp EXCEPT !.op = "openTab", !.id = fileId,
                        !.pre = IF existingTab = <<>> THEN "new" ELSE "existing"]
        /\ UNCHANGED <<files, logs, nextId, undoStack, redoStack, lastHist>>

closeTabAction(tabId) ==
  LET tab       == findTab(openedTabs, tabId)
      tabs1     == SelectSeq(openedTabs, LAMBDA t : t.id # tabId)
      active1   == IF activeTabId = tabId
                   THEN newActiveTab(openedTabs, tabId) ELSE activeTabId
  IN  /\ undoStack' = IF tab # <<>>
                      THEN Append(undoStack, TabAction(tabId, tab[1])) ELSE undoStack
      /\ redoStack' = IF tab # <<>> THEN <<>> ELSE redoStack
      /\ openedTabs' = tabs1
      /\ activeTabId' = active1
      /\ selectedFile' = IF activeTabId = tabId /\ active1 # Null
                         THEN active1 ELSE selectedFile
      /\ sessionStorage' = saveEffect(removeItemContent(sessionStorage, tabId),
                                      tabs1, active1)
      /\ lastOp' = [NoOp EXCEPT !.op = "closeTab", !.id = tabId,
                      !.pre = IF tab = <<>> THEN "closed" ELSE "open"]
      /\ lastHist' = IF tab # <<>>
                     THEN [NoHist EXCEPT !.op = "close", !.tabId = tabId, !.tab = tab[1],
                            !.index = CHOOSE k \in 1..Len(openedTabs) :
                                        openedTabs[k] = tab[1] /\ \A j \in 1..(k - 1) :
                                          openedTabs[j].id # tabId]
                     ELSE lastHist
      /\ UNCHANGED <<files, logs, nextId>>

setActiveTabAction(tabId) ==
  /\ activeTabId' = tabId
  /\ selectedFile' = tabId
  /\ sessionStorage' = saveEffect(sessionStorage, openedTabs, tabId)
  /\ lastOp' = [NoOp EXCEPT !.op = "setActiveTab", !.id = tabId]
  /\ UNCHANGED <<files, logs, nextId, openedTabs, undoStack, redoStack, lastHist>>

updateTabContentAction(tabId, content) ==
  LET tab   == findTab(openedTabs, tabId)
      tabs1 == [k \in 1..Len(openedTabs) |->
                  IF openedTabs[k].id = tabId
                  THEN [openedTabs[k] EXCEPT !.content = content, !.isModified = TRUE]
                  ELSE openedTabs[k]]
  IN  /\ undoStack' = IF tab # <<>>
                      THEN Append(undoStack, ContentAction(tabId, tab[1].content, content))
                      ELSE undoStack
      /\ redoStack' = IF tab # <<>> THEN <<>> ELSE redoStack
      /\ openedTabs' = tabs1
      /\ sessionStorage' = saveEffect(setItemContent(sessionStorage, tabId, content),
                                      tabs1, activeTabId)
      /\ lastOp' = [NoOp EXCEPT !.op = "updateTabContent", !.id = tabId,
                      !.content = content,
                      !.pre = IF tab = <<>> THEN "closed" ELSE "open"]
      /\ lastHist' = IF tab # <<>>
                     THEN [NoHist EXCEPT !.op = "update", !.tabId = tabId,
                                         !.c0 = tab[1].content, !.c1 = content]
                     ELSE lastHist
      /\ UNCHANGED <<files, selectedFile, logs, nextId, activeTabId>>

saveActiveFileAction ==
  IF activeTabId = Null \/ activeTabId = ""
  THEN /\ lastOp' = [NoOp EXCEPT !.op = "saveActiveFile", !.pre = "no active tab"]
       /\ UNCHANGED <<treeVars, editorVars, lastHist>>
  ELSE
    LET tabContent == getTabContent(activeTabId)
        tabs1 == [k \in 1..Len(openedTabs) |->
                    IF openedTabs[k].id = activeTabId
                    THEN [openedTabs[k] EXCEPT !.isModified = FALSE]
                    ELSE openedTabs[k]]
    IN  /\ files' = updateFileContent_files(files, activeTabId, tabContent)
        /\ openedTabs' = tabs1
        /\ sessionStorage' = saveEffect(sessionStorage, tabs1, activeTabId)
        /\ lastOp' = [NoOp EXCEPT !.op = "saveActiveFile", !.id = activeTabId,
                        !.pre = IF findTab(openedTabs, activeTabId) = <<>>
                                THEN "closed" ELSE "open"]
        /\ UNCHANGED <<selectedFile, logs, nextId, activeTabId, undoStack,
                       redoStack, lastHist>>

RECURSIVE saveAllFiles_files(_, _)
\* openedTabs.forEach(tab => updateFileContent(tab.id, getTabContent(tab.id)))
saveAllFiles_files(prevFiles, tabs) ==
  IF tabs = <<>> THEN prevFiles
  ELSE saveAllFiles_files(
         updateFileContent_files(prevFiles, Head(tabs).id, getTabContent(Head(tabs).id)),
         Tail(tabs))

saveAllFilesAction ==
  LET tabs1 == [k \in 1..Len(openedTabs) |-> [openedTabs[k] EXCEPT !.isModified = FALSE]]
  IN  /\ files' = saveAllFiles_files(files, openedTabs)
      /\ openedTabs' = tabs1
      /\ sessionStorage' = saveEffect(sessionStorage, tabs1, activeTabId)
      /\ lastOp' = [NoOp EXCEPT !.op = "saveAllFiles"]
      /\ UNCHANGED <<selectedFile, logs, nextId, activeTabId, undoStack,
                     redoStack, lastHist>>

moveTabAction(fromIndex, toIndex) ==
  LET tabs1 == moveTab_tabs(openedTabs, fromIndex, toIndex)
  IN  /\ openedTabs' = tabs1
      /\ sessionStorage' = saveEffect(sessionStorage, tabs1, activeTabId)
      /\ lastOp' = [NoOp EXCEPT !.op = "moveTab", !.fromIndex = fromIndex,
                                !.toIndex = toIndex]
      /\ UNCHANGED <<treeVars, activeTabId, undoStack, redoStack, lastHist>>

undoLastActionAction ==
  IF undoStack = <<>>
  THEN /\ lastOp' = [NoOp EXCEPT !.op = "undoLastAction", !.pre = "empty"]
       /\ lastHist' = [NoHist EXCEPT !.op = "other"]
       /\ UNCHANGED <<treeVars, editorVars>>
  ELSE
    LET lastAction == undoStack[Len(undoStack)]
        tabs1      == undoTabs(openedTabs, lastAction)
        storage1   ==
          IF undoIsContent(lastAction)
          THEN IF lastAction.previousContent # ""
               THEN setItemContent(sessionStorage, lastAction.tabId,
                                   lastAction.previousContent)
               ELSE sessionStorage
          ELSE IF undoIsTab(lastAction) /\ lastAction.tabInfo.content \notin {Undefined, ""}
               THEN setItemContent(sessionStorage, lastAction.tabId,
                                   lastAction.tabInfo.content)
               ELSE sessionStorage
    IN  /\ undoStack' = slice_0_m1(undoStack)
        /\ redoStack' = Append(redoStack, lastAction)
        /\ openedTabs' = tabs1
        /\ sessionStorage' = saveEffect(storage1, tabs1, activeTabId)
        /\ lastOp' = [NoOp EXCEPT !.op = "undoLastAction", !.id = lastAction.tabId,
                        !.pre = lastAction.type]
        /\ lastHist' = [lastHist EXCEPT !.op =
                          CASE lastHist.op = "update" -> "update.undo"
                            [] lastHist.op = "close"  -> "close.undo"
                            [] OTHER                  -> "other"]
        /\ UNCHANGED <<treeVars, activeTabId>>

redoLastActionAction ==
  IF redoStack = <<>>
  THEN /\ lastOp' = [NoOp EXCEPT !.op = "redoLastAction", !.pre = "empty"]
       /\ lastHist' = [NoHist EXCEPT !.op = "other"]
       /\ UNCHANGED <<treeVars, editorVars>>
  ELSE
    LET lastRedoAction == redoStack[Len(redoStack)]
        tabs1    == redoTabs(openedTabs, lastRedoAction)
        storage1 ==
          IF lastRedoAction.type = "content"
          THEN IF lastRedoAction.content \notin {Undefined, ""}
               THEN setItemContent(sessionStorage, lastRedoAction.tabId,
                                   lastRedoAction.content)
               ELSE sessionStorage
          ELSE IF lastRedoAction.type = "tab"
               THEN removeItemContent(sessionStorage, lastRedoAction.tabId)
               ELSE sessionStorage
    IN  /\ redoStack' = slice_0_m1(redoStack)
        /\ undoStack' = Append(undoStack, lastRedoAction)
        /\ openedTabs' = tabs1
        /\ sessionStorage' = saveEffect(storage1, tabs1, activeTabId)
        /\ lastOp' = [NoOp EXCEPT !.op = "redoLastAction", !.id = lastRedoAction.tabId,
                        !.pre = lastRedoAction.type]
        /\ lastHist' = [lastHist EXCEPT !.op =
                          CASE lastHist.op = "update.undo" -> "update.undo.redo"
                            [] OTHER                       -> "other"]
        /\ UNCHANGED <<treeVars, activeTabId>>

NextEditor ==
  \/ \E fileId \in EditorIdInputs :
       Tick(MaxEditorSteps) /\ openTabAction(fileId)
  \/ \E tabId \in TabIdInputs :
       Tick(MaxEditorSteps) /\ closeTabAction(tabId)
  \/ \E tabId \in TabIdInputs :
       Tick(MaxEditorSteps) /\ setActiveTabAction(tabId)
  \/ \E tabId \in TabIdInputs, content \in ContentInputs :
       Tick(MaxEditorSteps) /\ updateTabContentAction(tabId, content)
  \/ Tick(MaxEditorSteps) /\ saveActiveFileAction
  \/ Tick(MaxEditorSteps) /\ saveAllFilesAction
  \/ \E fromIndex \in 0..(Len(openedTabs) - 1), toIndex \in 0..(Len(openedTabs) - 1) :
       Tick(MaxEditorSteps) /\ moveTabAction(fromIndex, toIndex)
  \/ Tick(MaxEditorSteps) /\ undoLastActionAction
  \/ Tick(MaxEditorSteps) /\ redoLastActionAction

SpecEditor == Init /\ [][NextEditor]_vars

MoveIdInputs == {"readme", "app", "button"}

\* openTab, and moveTab with any two indices from -1 to 3.  (With an
\* undefined entry in the tab list openTab throws in openedTabs.find before
\* it sets any state.)
NextMoveTab ==
  \/ \E fileId \in MoveIdInputs :
       /\ Tick(MaxMoveSteps)
       /\ \A k \in 1..Len(openedTabs) : openedTabs[k] # UndefinedTab
       /\ openTabAction(fileId)
  \/ \E fromIndex \in -1..3, toIndex \in -1..3 :
       Tick(MaxMoveSteps) /\ moveTabAction(fromIndex, toIndex)

SpecMoveTab == Init /\ [][NextMoveTab]_vars

\* tabs being opened, edited and saved while the tree changes under them
NextCross ==
  \/ \E fileId \in EditorIdInputs :
       Tick(MaxCrossSteps) /\ openTabAction(fileId)
  \/ \E tabId \in TabIdInputs, content \in ContentInputs :
       Tick(MaxCrossSteps) /\ updateTabContentAction(tabId, content)
  \/ Tick(MaxCrossSteps) /\ saveActiveFileAction
  \/ \E id \in TreeIdInputs, newName \in NameInputs :
       Tick(MaxCrossSteps) /\ renameFileAction(id, newName)
  \/ \E id \in TreeIdInputs :
       Tick(MaxCrossSteps) /\ deleteFileAction(id)
  \/ \E newRootName \in RootNameInputs :
       Tick(MaxCrossSteps) /\ replaceFileSystemAction(newRootName)

SpecCross == Init /\ [][NextCross]_vars

\* The page is loaded again in the same browser session: both providers are
\* mounted anew, the load effect reads the session storage, and the save
\* effect runs on the tabs it set.
reloadAction ==
  LET savedTabsJson  == sessionStorage.tabs
      savedActiveTab == sessionStorage.active
      tabs1   == IF savedTabsJson # <<>> THEN loadedTabs(sessionStorage) ELSE <<>>
      active1 == IF savedTabsJson # <<>> /\ savedActiveTab \notin {Null, ""}
                 THEN savedActiveTab ELSE Null
  IN  /\ files' = initialFileSystem
      /\ logs' = initialLogs
      /\ selectedFile' = active1
      /\ openedTabs' = tabs1
      /\ activeTabId' = active1
      /\ undoStack' = <<>>
      /\ redoStack' = <<>>
      /\ sessionStorage' = saveEffect(sessionStorage, tabs1, active1)
      /\ lastOp' = [NoOp EXCEPT !.op = "reload"]
      /\ lastHist' = [NoHist EXCEPT !.op = "other"]
      /\ UNCHANGED nextId

SessionIdInputs == {"readme", "app"}

\* the tab operations and the reload
NextSession ==
  \/ \E fileId \in SessionIdInputs :
       Tick(MaxSessionSteps) /\ openTabAction(fileId)
  \/ \E tabId \in SessionIdInputs :
       Tick(MaxSessionSteps) /\ closeTabAction(tabId)
  \/ \E tabId \in SessionIdInputs, content \in ContentInputs :
       Tick(MaxSessionSteps) /\ updateTabContentAction(tabId, content)
  \/ Tick(MaxSessionSteps) /\ undoLastActionAction
  \/ Tick(MaxSessionSteps) /\ reloadAction

SpecSession == Init /\ [][NextSession]_vars

-----------------------------------------------------------------------------
(* Remote import: handleImport and processGithubContents.  An async        *)
(* function runs from one await to the next in one step; the outcome of a  *)
(* fetch ("ok", "notok": a response that is not ok, "reject") is an input  *)
(* of the step that resumes after it.                                      *)

MaxFileSize == 500000

N_lib == <<"l","i","b">>
N_a_ts == <<"a",".","t","s">>
N_big_bin == <<"b","i","g",".","b","i","n">>
N_notes == <<"n","o","t","e","s">>

\* a GithubFile; download_url is whether the entry has one, content what it
\* serves, sub the listing item.url serves
GithubFile(name, type, size, download_url, content, sub) ==
  [name |-> name, type |-> type, size |-> size, download_url |-> download_url,
   content |-> content, sub |-> sub]

\* the listings the contents API answers with
RemoteListings ==
  { << GithubFile(N_lib, "dir", 0, FALSE, Undefined,
         << GithubFile(N_a_ts, "file", 100, TRUE, "<a.ts remote>", <<>>) >>),
       GithubFile(N_big_bin, "file", MaxFileSize + 1, TRUE, "<big.bin remote>", <<>>),
       GithubFile(N_README_md, "file", MaxFileSize, TRUE, "<README.md remote>", <<>>) >>,
    << GithubFile(N_notes, "file", 0, FALSE, "", <<>>),
       GithubFile(N_a_ts, "file", 100, TRUE, "<a.ts remote>", <<>>) >> }

FetchOutcomes == {"ok", "notok", "reject"}

Seen(item, parentPath, result) ==
  [name |-> item.name, parentPath |-> parentPath, size |-> item.size,
   content |-> item.content, result |-> result]

RECURSIVE nextAwait(_, _)
\* processGithubContents from the top of its loop up to the next entry it
\* fetches for: loops whose entries are used up return, a file above the
\* size limit is skipped with a toast, a file without download_url and an
\* entry of another type are passed over
nextAwait(work, seen) ==
  IF work = <<>> THEN [work |-> <<>>, seen |-> seen]
  ELSE
    LET top == Head(work) IN
    IF top.contents = <<>> THEN nextAwait(Tail(work), seen)
    ELSE
      LET item == Head(top.contents)
          rest == << [top EXCEPT !.contents = Tail(@)] >> \o Tail(work)
      IN  IF item.type = "file" /\ item.size # 0 /\ item.size > MaxFileSize
          THEN nextAwait(rest, Append(seen, Seen(item, top.parentPath, "skipped")))
          ELSE IF item.type = "file" /\ ~item.download_url
          THEN nextAwait(rest, Append(seen, Seen(item, top.parentPath, "no url")))
          ELSE IF item.type \notin {"dir", "file"}
          THEN nextAwait(rest, seen)
          ELSE [work |-> work, seen |-> seen]

\* the current call of processGithubContents has passed its current entry
passed(work) == << [Head(work) EXCEPT !.contents = Tail(@)] >> \o Tail(work)

\* The import runs on from st (files, selectedFile, logs, nextId and the
\* fields of importState) to its next await: before the fetch for a folder
\* it creates the folder; when no entry is left, handleImport logs its
\* success and returns.
resume(st, newId) ==
  LET na == nextAwait(st.work, st.seen) IN
  IF na.work = <<>>
  THEN [st EXCEPT !.pc = "idle", !.work = <<>>, !.seen = na.seen,
                  !.logs = Append(@, LogEntry("success", "Imported GitHub repository", st.name))]
  ELSE
    LET top  == Head(na.work)
        item == Head(top.contents)
    IN  IF item.type = "dir"
        THEN [st EXCEPT !.pc = "dir", !.work = na.work, !.seen = na.seen,
                        !.files = createFile_files(@, top.parentPath, newId, item.name, "folder"),
                        !.nextId = @ + 1]
        ELSE [st EXCEPT !.pc = "file", !.work = na.work, !.seen = na.seen]

\* handleImport's catch block
failed(st, message) ==
  [st EXCEPT !.pc = "idle", !.work = <<>>,
             !.logs = Append(@, LogEntry("error", "Failed to import repository", message))]

importNow ==
  [files |-> files, selectedFile |-> selectedFile, logs |-> logs, nextId |-> nextId,
   pc |-> importState.pc, name |-> importState.name, work |-> importState.work,
   seen |-> importState.seen, logsAt |-> importState.logsAt]

importBecomes(st) ==
  /\ files' = st.files
  /\ selectedFile' = st.selectedFile
  /\ logs' = st.logs
  /\ nextId' = st.nextId
  /\ importState' = [pc |-> st.pc, name |-> st.name, work |-> st.work,
                     seen |-> st.seen, logsAt |-> st.logsAt]
  /\ steps < MaxImportSteps
  /\ steps' = steps + 1
  /\ UNCHANGED <<editorVars, lastHist>>

\* handleImport up to the fetch of the repository information; with an
\* invalid URL it returns at once
handleImportAction(validUrl) ==
  /\ importState.pc = "idle"
  /\ importBecomes(IF validUrl
                   THEN [importNow EXCEPT !.pc = "repo", !.name = <<>>, !.work = <<>>,
                                          !.seen = <<>>, !.logsAt = Len(logs)]
                   ELSE importNow)
  /\ lastOp' = [NoOp EXCEPT !.op = "handleImport",
                            !.pre = IF validUrl THEN "valid" ELSE "invalid"]

\* the repository information has arrived: replaceFileSystem(repoData.name),
\* then the fetch of the root listing
repoResponseAction(outcome, repoName) ==
  /\ importState.pc = "repo"
  /\ importBecomes(
       IF outcome = "ok"
       THEN [importNow EXCEPT
               !.pc = "contents", !.name = repoName,
               !.files = createEmptyFileSystem(repoName),
               !.selectedFile = Null,
               !.logs = Append(@, LogEntry("info", "Prepared new file system for", repoName))]
       ELSE failed(importNow, IF outcome = "notok"
                              THEN "Repository not found or not accessible"
                              ELSE "fetch rejected"))
  /\ lastOp' = [NoOp EXCEPT !.op = "repoResponse", !.pre = outcome, !.name = repoName]

\* the root listing has arrived: processGithubContents(contents, "/" + name)
contentsResponseAction(outcome, contents, newId) ==
  /\ importState.pc = "contents"
  /\ importBecomes(
       IF outcome = "ok"
       THEN resume([importNow EXCEPT
                      !.work = << [contents |-> contents,
                                   parentPath |-> Slash \o importState.name] >>],
                   newId)
       ELSE failed(importNow, IF outcome = "notok"
                              THEN "Failed to fetch repository contents"
                              ELSE "fetch rejected"))
  /\ lastOp' = [NoOp EXCEPT !.op = "contentsResponse", !.pre = outcome]

\* the listing of a folder has arrived: the recursive call on it, or, when
\* the response is not ok, the next entry; a rejected fetch is thrown up to
\* handleImport
dirResponseAction(outcome, newId) ==
  /\ importState.pc = "dir"
  /\ LET top  == Head(importState.work)
         item == Head(top.contents)
     IN  /\ importBecomes(
              CASE outcome = "ok" ->
                     resume([importNow EXCEPT
                               !.work = << [contents |-> item.sub,
                                            parentPath |-> top.parentPath \o Slash \o item.name] >>
                                        \o passed(importState.work)],
                            newId)
                [] outcome = "notok" ->
                     resume([importNow EXCEPT !.work = passed(importState.work)], newId)
                [] outcome = "reject" ->
                     failed(importNow, "fetch rejected"))
         /\ lastOp' = [NoOp EXCEPT !.op = "dirResponse", !.pre = outcome,
                                   !.name = item.name, !.path = top.parentPath]

\* the content of a file has arrived: createFile, updateFileContent and a log
\* entry; nothing when the response is not ok; a warning when the fetch was
\* rejected; then the next entry
fileResponseAction(outcome, fileId, newId) ==
  /\ importState.pc = "file"
  /\ LET top  == Head(importState.work)
         item == Head(top.contents)
         done == [importNow EXCEPT
                    !.work = passed(importState.work),
                    !.seen = Append(@, Seen(item, top.parentPath, outcome))]
     IN  /\ importBecomes(
              CASE outcome = "ok" ->
                     resume([done EXCEPT
                               !.files = updateFileContent_files(
                                           createFile_files(@, top.parentPath, fileId,
                                                            item.name, "file"),
                                           fileId, item.content),
                               !.selectedFile = fileId,
                               !.nextId = @ + 1,
                               !.logs = Append(@, LogEntry("info", "Loaded file", item.name))],
                            newId)
                [] outcome = "notok" -> resume(done, newId)
                [] outcome = "reject" ->
                     resume([done EXCEPT
                               !.logs = Append(@, LogEntry("warning", "Failed to load file",
                                                           item.name))],
                            newId))
         /\ lastOp' = [NoOp EXCEPT !.op = "fileResponse", !.pre = outcome,
                                   !.name = item.name, !.path = top.parentPath]

NextImport ==
  \/ \E validUrl \in BOOLEAN : handleImportAction(validUrl)
  \/ \E outcome \in FetchOutcomes, repoName \in RootNameInputs :
       repoResponseAction(outcome, repoName)
  \/ \E outcome \in FetchOutcomes, contents \in RemoteListings, newId \in generateId :
       contentsResponseAction(outcome, contents, newId)
  \/ \E outcome \in FetchOutcomes, newId \in generateId :
       dirResponseAction(outcome, newId)
  \/ \E outcome \in FetchOutcomes, fileId \in generateId, newId \in generateId :
       fileResponseAction(outcome, fileId, newId)

SpecImport == Init /\ [][NextImport]_vars

\* the import, and between its steps, while it waits for a fetch, the user
\* renaming or deleting the root or a created item or replacing the tree
NextImportCross ==
  \/ \E validUrl \in BOOLEAN : handleImportAction(validUrl)
  \/ \E outcome \in FetchOutcomes, repoName \in RootNameInputs :
       repoResponseAction(outcome, repoName)
  \/ \E outcome \in FetchOutcomes, contents \in RemoteListings, newId \in generateId :
       contentsResponseAction(outcome, contents, newId)
  \/ \E outcome \in FetchOutcomes, newId \in generateId :
       dirResponseAction(outcome, newId)
  \/ \E outcome \in FetchOutcomes, fileId \in generateId, newId \in generateId :
       fileResponseAction(outcome, fileId, newId)
  \/ \E id \in {"root", "n1"} :
       /\ importState.pc \in {"contents", "dir", "file"}
       /\ Tick(MaxImportSteps) /\ renameFileAction(id, N_src_backup)
  \/ \E id \in {"n1", "n2"} :
       /\ importState.pc \in {"contents", "dir", "file"}
       /\ Tick(MaxImportSteps) /\ deleteFileAction(id)
  \/ /\ importState.pc \in {"contents", "dir", "file"}
     /\ Tick(MaxImportSteps) /\ replaceFileSystemAction(N_new_project)

SpecImportCross == Init /\ [][NextImportCross]_vars

-----------------------------------------------------------------------------
(* Vocabulary of the properties.                                           *)

RECURSIVE Flatten(_)
\* the items of a forest in depth-first pre-order
Flatten(items) ==
  IF items = <<>> THEN <<>>
  ELSE <<Head(items)>> \o Flatten(Head(items).children) \o Flatten(Tail(items))

RECURSIVE PathsConsistent(_, _)
\* every item's path is prefix + "/" + its name, and so on below it, where
\* prefix is "/"-joined from the names of the item's ancestors
PathsConsistent(items, prefix) ==
  \A k \in 1..Len(items) :
    /\ items[k].path = prefix \o Slash \o items[k].name
    /\ PathsConsistent(items[k].children, prefix \o Slash \o items[k].name)

RECURSIVE WithoutSubtree(_, _)
\* the forest with every item of this id, and all below it, cut out
WithoutSubtree(items, id) ==
  IF items = <<>> THEN <<>>
  ELSE IF Head(items).id = id THEN WithoutSubtree(Tail(items), id)
  ELSE << [Head(items) EXCEPT !.children = WithoutSubtree(@, id)] >>
       \o WithoutSubtree(Tail(items), id)

RECURSIVE WithChildAppended(_, _, _)
\* the forest with node appended to the children of the item of this id
WithChildAppended(items, id, node) ==
  [k \in 1..Len(items) |->
     [items[k] EXCEPT !.children =
        IF items[k].id = id
        THEN Append(WithChildAppended(@, id, node), node)
        ELSE WithChildAppended(@, id, node)]]

\* the folders of the forest stored under this path, in pre-order
FoldersAt(items, path) ==
  SelectSeq(Flatten(items), LAMBDA item : item.type = "folder" /\ item.path = path)

\* how many tabs of the list belong to this file id
TabCount(tabs, id) == Cardinality({k \in 1..Len(tabs) : tabs[k].id = id})

-----------------------------------------------------------------------------
(* C1 - C4, C9, C10: the Tree Store.                                       *)

\* C1 (as claimed): in every state reachable by createFile, renameFile and
\* moveFile, every item's stored path is "/" followed by the names of its
\* ancestors and its own name, joined by "/".
C1_PathConsistency == PathsConsistent(files, <<>>)

\* C2 (as claimed): after renameFile(id, newName) on a folder, every
\* descendant's stored path is the folder's new path (its parent's path, "/",
\* newName) followed by the descendant's relative path below the folder.
C2_RenameRewritesDescendants ==
  [][ LET target == findItemById(files, lastOp'.id)
          parent == findParentById(files, lastOp'.id)
          parentPath == IF parent = <<>> THEN <<>> ELSE parent[1].path
      IN  (lastOp'.op = "renameFile" /\ target # <<>> /\ target[1].type = "folder")
          => PathsConsistent(findItemById(files', lastOp'.id)[1].children,
                             parentPath \o Slash \o lastOp'.name) ]_vars

\* C3: renameFile(id, newName) changes nothing outside the subtree of the
\* renamed item: the forest with that subtree cut out is the same before and
\* after, and so is every item when no item has the id.
C3_RenameFrame ==
  [][ lastOp'.op = "renameFile"
      => /\ WithoutSubtree(files', lastOp'.id) = WithoutSubtree(files, lastOp'.id)
         /\ (findItemById(files, lastOp'.id) = <<>> => files' = files)
         /\ selectedFile' = selectedFile ]_vars

\* C3 witness: "src" has been renamed while a sibling "src-backup" stands
\* beside it, and the sibling's path is intact.
C3_Witness ==
  /\ lastOp.op = "renameFile" /\ lastOp.id = "src" /\ lastOp.name = N_docs
  /\ \E k \in 1..Len(files[1].children) :
       /\ files[1].children[k].name = N_src_backup
       /\ files[1].children[k].path = Slash \o N_my_project \o Slash \o N_src_backup
  /\ findItemById(files, "src")[1].name = N_docs

\* C4: deleteFile("root") leaves the forest as it is.
C4_DeleteRootRejected ==
  [][ (lastOp'.op = "deleteFile" /\ lastOp'.id = "root") => files' = files ]_vars

\* C4 witness: deleteFile("root") has been called on a tree that holds the
\* root and items below it, and they are all still there.
C4_Witness ==
  /\ lastOp.op = "deleteFile" /\ lastOp.id = "root"
  /\ Len(files) = 1 /\ files[1].id = "root"
  /\ Len(Flatten(files)) >= 8

\* C9 (as claimed): createFile(parentPath, name, type), when a folder is
\* stored under parentPath, appends exactly one new item as the last child of
\* that folder, with path parentPath/name and the folder's id as parentId; a
\* file has empty content, isModified false, the language of its extension,
\* and becomes the selected file; a folder has no children and leaves the
\* selection alone.
C9_CreateAppendsToFolder ==
  [][ LET folders == FoldersAt(files, lastOp'.path)
          expected == [id |-> lastOp'.ret, name |-> lastOp'.name,
                       type |-> lastOp'.type,
                       content |-> IF lastOp'.type = "file" THEN "" ELSE Undefined,
                       language |-> IF lastOp'.type = "file"
                                    THEN getLanguageFromExtension(lastOp'.name)
                                    ELSE Undefined,
                       children |-> <<>>,
                       path |-> lastOp'.path \o Slash \o lastOp'.name,
                       isOpen |-> FALSE, isModified |-> FALSE,
                       parentId |-> folders[1].id]
      IN  (lastOp'.op = "createFile" /\ folders # <<>>)
          => /\ files' = WithChildAppended(files, folders[1].id, expected)
             /\ selectedFile' = IF lastOp'.type = "file" THEN lastOp'.ret
                                ELSE selectedFile ]_vars

\* C10 (as claimed): createFile with a parentPath under which no folder is
\* stored returns undefined and changes neither the forest nor the selection.
C10_CreateMissingParentNoOp ==
  [][ (lastOp'.op = "createFile" /\ FoldersAt(files, lastOp'.path) = <<>>)
      => /\ files' = files
         /\ selectedFile' = selectedFile
         /\ lastOp'.ret = Undefined ]_vars

-----------------------------------------------------------------------------
(* C5 - C8: the Tab/Session Store.                                         *)

\* C5 (as claimed): openTab(fileId) for an existing file that already has an
\* open tab leaves the tab list unchanged, with exactly one tab of that id in
\* it, and makes that id the active tab and the selected file.
C5_OpenTabIdempotent ==
  [][ (lastOp'.op = "openTab" /\ lastOp'.pre = "existing")
      => /\ openedTabs' = openedTabs
         /\ TabCount(openedTabs', lastOp'.id) = 1
         /\ activeTabId' = lastOp'.id
         /\ selectedFile' = lastOp'.id ]_vars

\* C6: when updateTabContent(tabId, c1) on an open tab with buffer c0 is
\* followed by undoLastAction as the next history operation, every tab of that
\* id has buffer c0 and isModified true; when redoLastAction is the history
\* operation after that, every tab of that id has buffer c1 and isModified true.
C6_UndoRedoContent ==
  [][ /\ (lastHist.op = "update" /\ lastHist'.op = "update.undo")
         => /\ findTab(openedTabs', lastHist.tabId) # <<>>
            /\ \A k \in 1..Len(openedTabs') :
                 openedTabs'[k].id = lastHist.tabId
                 => /\ openedTabs'[k].content = lastHist.c0
                    /\ openedTabs'[k].isModified
      /\ (lastHist.op = "update.undo" /\ lastHist'.op = "update.undo.redo")
         => /\ findTab(openedTabs', lastHist.tabId) # <<>>
            /\ \A k \in 1..Len(openedTabs') :
                 openedTabs'[k].id = lastHist.tabId
                 => /\ openedTabs'[k].content = lastHist.c1
                    /\ openedTabs'[k].isModified ]_vars

\* C6 witness: an edit from the empty buffer to "draft" has been undone and
\* redone, and the tab shows "draft" again.
C6_Witness ==
  /\ lastHist.op = "update.undo.redo"
  /\ lastHist.c0 = "" /\ lastHist.c1 = "draft"
  /\ findTab(openedTabs, lastHist.tabId) # <<>>
  /\ findTab(openedTabs, lastHist.tabId)[1].content = "draft"

\* C7: saveActiveFile with no active tab changes nothing; with an active tab
\* whose file exists, the file's content afterwards is the tab's buffer and
\* is what getTabContent returns, every tab of that id has isModified false,
\* and no buffer has changed.
C7_SaveActiveFile ==
  [][ lastOp'.op = "saveActiveFile"
      => IF activeTabId = Null
         THEN UNCHANGED <<files, selectedFile, logs, nextId, openedTabs,
                          activeTabId, undoStack, redoStack, sessionStorage>>
         ELSE LET tab  == findTab(openedTabs, activeTabId)
                  file == findItemById(files, activeTabId)
              IN  (tab # <<>> /\ file # <<>> /\ file[1].type = "file")
                  => /\ findItemById(files', activeTabId)[1].content = tab[1].content
                     /\ getTabContent(activeTabId)'
                          = findItemById(files', activeTabId)[1].content
                     /\ Len(openedTabs') = Len(openedTabs)
                     /\ \A k \in 1..Len(openedTabs) :
                          /\ openedTabs'[k].content = openedTabs[k].content
                          /\ openedTabs'[k].id = activeTabId
                             => ~openedTabs'[k].isModified
                     /\ activeTabId' = activeTabId ]_vars

\* C7 witness: the buffer "draft" of the active tab has just been saved into
\* its file, and the tab is unmodified.
C7_Witness ==
  /\ lastOp.op = "saveActiveFile" /\ lastOp.pre = "open"
  /\ findItemById(files, lastOp.id) # <<>>
  /\ findItemById(files, lastOp.id)[1].content = "draft"
  /\ findTab(openedTabs, lastOp.id)[1].content = "draft"
  /\ ~findTab(openedTabs, lastOp.id)[1].isModified

\* C8: when closeTab on an open tab is followed by undoLastAction as the next
\* history operation, the tab list afterwards is the list before the undo
\* with the closed tab's snapshot (name, path, language, isModified, buffer)
\* appended at its end.
C8_UndoCloseRestoresTab ==
  [][ (lastHist.op = "close" /\ lastHist'.op = "close.undo")
      => /\ openedTabs' = Append(openedTabs, lastHist.tab)
         /\ lastHist'.tab = lastHist.tab ]_vars

\* C8 witness: a modified tab with buffer "draft" that was first of two tabs
\* has been closed and restored, and now stands second.
C8_Witness ==
  /\ lastHist.op = "close.undo"
  /\ lastHist.index = 1
  /\ Len(openedTabs) = 2
  /\ openedTabs[2] = lastHist.tab
  /\ openedTabs[1].id # lastHist.tab.id
  /\ lastHist.tab.content = "draft" /\ lastHist.tab.isModified

-----------------------------------------------------------------------------
(* C11 - C15, C20: the Tree Store, continued.                              *)

\* the ids of an item and of everything below it
SubtreeIds(item) ==
  {Flatten(<<item>>)[k].id : k \in 1..Len(Flatten(<<item>>))}

\* C11 (as claimed): deleteFile(id) for an existing id other than the root's
\* removes the item and everything below it, so that getFileById finds
\* neither the item nor any former descendant afterwards; every other item
\* and the order of the remaining siblings are as before; the selection is
\* cleared when it was the deleted id and is kept otherwise.
C11_DeleteRemovesSubtree ==
  [][ LET id     == lastOp'.id
          target == findItemById(files, id)
      IN  (lastOp'.op = "deleteFile" /\ id # "root" /\ target # <<>>)
          => /\ \A d \in SubtreeIds(target[1]) : findItemById(files', d) = <<>>
             /\ files' = WithoutSubtree(files, id)
             /\ selectedFile' = IF selectedFile = id THEN Null
                                ELSE selectedFile ]_vars

\* whether the string s starts with the string p
StartsWith(s, p) == Len(p) <= Len(s) /\ SubSeq(s, 1, Len(p)) = p

\* how many items of the forest have this id
IdCount(items, id) ==
  Cardinality({k \in 1..Len(Flatten(items)) : Flatten(items)[k].id = id})

\* C12 (as claimed): moveFile(fileId, newParentId), when newParentId is an
\* existing folder that is neither the moved item nor below it, takes the
\* item out of its old parent's children and makes it the last child of the
\* new parent, with parentId newParentId and path = the new parent's path,
\* "/" and its name; every item below it then has a path that starts with
\* that new path; nothing outside the moved subtree changes.
C12_MoveReparents ==
  [][ LET fileId      == lastOp'.id
          newParentId == lastOp'.id2
          fileToMove  == findItemById(files, fileId)
          newParent   == findItemById(files, newParentId)
      IN  (/\ lastOp'.op = "moveFile"
           /\ fileToMove # <<>> /\ newParent # <<>>
           /\ newParent[1].type = "folder"
           /\ newParentId \notin SubtreeIds(fileToMove[1]))
          => LET newPath == newParent[1].path \o Slash \o fileToMove[1].name
                 parent1 == findItemById(files', newParentId)
                 moved   == parent1[1].children[Len(parent1[1].children)]
                 below   == Flatten(moved.children)
             IN  /\ parent1 # <<>> /\ parent1[1].children # <<>>
                 /\ moved.id = fileId
                 /\ moved.path = newPath
                 /\ moved.parentId = newParentId
                 /\ IdCount(files', fileId) = 1
                 /\ Len(below) = Len(Flatten(fileToMove[1].children))
                 /\ \A k \in 1..Len(below) :
                      /\ below[k].id = Flatten(fileToMove[1].children)[k].id
                      /\ StartsWith(below[k].path, newPath \o Slash)
                 /\ WithoutSubtree(files', fileId) = WithoutSubtree(files, fileId) ]_vars

\* C13 (as claimed): moveFile(fileId, newParentId) where newParentId is the
\* moved item or an item below it changes nothing: the forest is the same,
\* so every item is still reachable and none is its own ancestor.
C13_MoveIntoOwnSubtreeRejected ==
  [][ LET fileToMove == findItemById(files, lastOp'.id)
      IN  (/\ lastOp'.op = "moveFile"
           /\ fileToMove # <<>>
           /\ lastOp'.id2 \in SubtreeIds(fileToMove[1]))
          => /\ files' = files
             /\ selectedFile' = selectedFile ]_vars

\* C14 (as claimed): in every reachable state no two items of the forest
\* have the same id, so the id createFile assigns is never one in use.
C14_UniqueIds ==
  \A j, k \in 1..Len(Flatten(files)) :
    Flatten(files)[j].id = Flatten(files)[k].id => j = k

\* C15 (as claimed): in every reachable state no item of type file has
\* children, whatever parentPath createFile and whatever new parent moveFile
\* was given.
C15_FilesHaveNoChildren ==
  \A k \in 1..Len(Flatten(files)) :
    Flatten(files)[k].type = "file" => Flatten(files)[k].children = <<>>

-----------------------------------------------------------------------------
(* C16 - C19: the Tab/Session Store, continued.                            *)

\* C16 (as claimed): in every reachable state the tab list holds at most one
\* tab per file id.
C16_OneTabPerFile ==
  \A j, k \in 1..Len(openedTabs) :
    openedTabs[j].id = openedTabs[k].id => j = k

\* C17: closeTab(tabId) on an open tab appends one action of type "tab" with
\* the tab as it was to the undo stack, empties the redo stack and removes the
\* tab, the other tabs keeping their order; a closed active tab is followed
\* as active tab by the first remaining tab, or by none when no tab remains;
\* otherwise the active tab stays.
C17_CloseTab ==
  [][ (lastOp'.op = "closeTab" /\ lastOp'.pre = "open")
      => LET tabId == lastOp'.id
             tab   == findTab(openedTabs, tabId)[1]
             top   == undoStack'[Len(undoStack')]
         IN  /\ Len(undoStack') = Len(undoStack) + 1
             /\ SubSeq(undoStack', 1, Len(undoStack)) = undoStack
             /\ top.type = "tab" /\ top.tabId = tabId /\ top.tabInfo = tab
             /\ redoStack' = <<>>
             /\ openedTabs' = SelectSeq(openedTabs, LAMBDA t : t.id # tabId)
             /\ activeTabId' = IF activeTabId # tabId THEN activeTabId
                               ELSE IF openedTabs' = <<>> THEN Null
                               ELSE openedTabs'[1].id ]_vars

\* C17 witness: the active, modified first tab has been closed with another
\* tab open; that other tab is now the active one and the snapshot on the
\* undo stack holds the unsaved buffer.
C17_Witness ==
  /\ lastOp.op = "closeTab" /\ lastOp.pre = "open"
  /\ lastHist.op = "close" /\ lastHist.index = 1
  /\ Len(openedTabs) = 1
  /\ activeTabId = openedTabs[1].id
  /\ selectedFile = activeTabId
  /\ undoStack # <<>>
  /\ undoStack[Len(undoStack)].tabInfo.content = "draft"
  /\ undoStack[Len(undoStack)].tabInfo.isModified

\* C18: updateTabContent(tabId, content) on an open tab appends one action of
\* type "content" with the previous and the new buffer to the undo stack,
\* empties the redo stack, gives the tab the buffer content and isModified
\* true and changes no other tab; and redoLastAction as the next operation
\* after an updateTabContent or a closeTab on an open tab changes nothing.
C18_UpdateTabContent ==
  [][ /\ (lastOp'.op = "updateTabContent" /\ lastOp'.pre = "open")
         => LET tabId == lastOp'.id
                tab   == findTab(openedTabs, tabId)[1]
                top   == undoStack'[Len(undoStack')]
            IN  /\ Len(undoStack') = Len(undoStack) + 1
                /\ SubSeq(undoStack', 1, Len(undoStack)) = undoStack
                /\ top.type = "content" /\ top.tabId = tabId
                /\ top.previousContent = tab.content
                /\ top.content = lastOp'.content
                /\ redoStack' = <<>>
                /\ Len(openedTabs') = Len(openedTabs)
                /\ \A k \in 1..Len(openedTabs) :
                     openedTabs'[k] =
                       IF openedTabs[k].id = tabId
                       THEN [openedTabs[k] EXCEPT !.content = lastOp'.content,
                                                  !.isModified = TRUE]
                       ELSE openedTabs[k]
                /\ activeTabId' = activeTabId
      /\ (/\ lastOp.op \in {"updateTabContent", "closeTab"} /\ lastOp.pre = "open"
          /\ lastOp'.op = "redoLastAction")
         => UNCHANGED <<files, selectedFile, logs, openedTabs, activeTabId,
                        undoStack, redoStack, sessionStorage>> ]_vars

\* C18 witness: with two tabs open, the buffer "draft" of one has been
\* replaced by the empty buffer; the action is on the undo stack and the
\* other tab is unmodified.
C18_Witness ==
  /\ lastOp.op = "updateTabContent" /\ lastOp.pre = "open" /\ lastOp.content = ""
  /\ Len(openedTabs) = 2
  /\ undoStack[Len(undoStack)].previousContent = "draft"
  /\ undoStack[Len(undoStack)].content = ""
  /\ \E k \in 1..2 : openedTabs[k].id # lastOp.id /\ ~openedTabs[k].isModified
  /\ \E k \in 1..2 : openedTabs[k].id = lastOp.id /\ openedTabs[k].content = ""
                     /\ openedTabs[k].isModified

\* C19: undoLastAction with a non-empty undo stack takes the newest action
\* off the undo stack and puts it on top of the redo stack; redoLastAction
\* with a non-empty redo stack takes the newest action off the redo stack and
\* puts it on top of the undo stack; with its source stack empty each of the
\* two changes nothing.
C19_StacksAreLIFO ==
  [][ /\ lastOp'.op = "undoLastAction"
         => IF undoStack = <<>>
            THEN UNCHANGED <<files, selectedFile, logs, openedTabs, activeTabId,
                             undoStack, redoStack, sessionStorage>>
            ELSE /\ undoStack' = SubSeq(undoStack, 1, Len(undoStack) - 1)
                 /\ redoStack' = Append(redoStack, undoStack[Len(undoStack)])
      /\ lastOp'.op = "redoLastAction"
         => IF redoStack = <<>>
            THEN UNCHANGED <<files, selectedFile, logs, openedTabs, activeTabId,
                             undoStack, redoStack, sessionStorage>>
            ELSE /\ redoStack' = SubSeq(redoStack, 1, Len(redoStack) - 1)
                 /\ undoStack' = Append(undoStack, redoStack[Len(redoStack)]) ]_vars

\* C19 witness: two edits have been undone, the later one first, and the
\* earlier one has just been redone.
C19_Witness ==
  /\ lastOp.op = "redoLastAction" /\ lastOp.pre = "content"
  /\ Len(undoStack) = 1 /\ Len(redoStack) = 1
  /\ undoStack[1].type = "content" /\ undoStack[1].content = "draft"
  /\ redoStack[1].content = "" /\ redoStack[1].previousContent = "draft"

-----------------------------------------------------------------------------
(* C20: updateFileContent.                                                 *)

\* an item without what is below it: its own fields and its number of children
Shallow(item) == [item EXCEPT !.children = Len(item.children)]

\* the items of the forest in pre-order, each without what is below it; two
\* forests with the same list are the same forest
ShallowItems(items) ==
  [k \in 1..Len(Flatten(items)) |-> Shallow(Flatten(items)[k])]

\* C20: updateFileContent(id, content), when an item of type file has the id,
\* gives the first such item the content and isModified = (content differs
\* from its content before) and changes no other item; when the id belongs
\* to folders only or to no item, the forest stays as it is.
C20_UpdateFileContent ==
  [][ lastOp'.op = "updateFileContent"
      => LET id      == lastOp'.id
             content == lastOp'.content
             before  == ShallowItems(files)
             after   == ShallowItems(files')
             hits    == {k \in 1..Len(before) :
                           before[k].id = id /\ before[k].type = "file"}
         IN  /\ selectedFile' = selectedFile
             /\ IF hits = {} THEN files' = files
                ELSE LET k == CHOOSE h \in hits : \A g \in hits : h <= g
                     IN  after = [before EXCEPT
                                    ![k] = [@ EXCEPT
                                              !.content = content,
                                              !.isModified = (before[k].content # content)]] ]_vars

\* C20 witness: the content of README.md has been replaced by "draft", which
\* it was not before, and the item is flagged as modified.
C20_Witness ==
  /\ lastOp.op = "updateFileContent" /\ lastOp.id = "readme"
  /\ lastOp.content = "draft"
  /\ findItemById(files, "readme") # <<>>
  /\ findItemById(files, "readme")[1].content = "draft"
  /\ findItemById(files, "readme")[1].isModified

-----------------------------------------------------------------------------
(* C21 - C30.                                                              *)

\* C21 (as claimed): right after saveActiveFile or saveAllFiles has written
\* a tab's buffer into its file, the file's isModified is false, whether or
\* not the buffer differed from the file's content before.
C21_SavedFileIsUnmodified ==
  [][ LET saved == IF lastOp'.op = "saveActiveFile" /\ lastOp'.pre = "open"
                   THEN {lastOp'.id}
                   ELSE IF lastOp'.op = "saveAllFiles"
                   THEN {openedTabs[k].id : k \in 1..Len(openedTabs)}
                   ELSE {}
      IN  \A id \in saved :
            LET file == findItemById(files', id)
            IN  (file # <<>> /\ file[1].type = "file")
                => /\ file[1].content = findTab(openedTabs, id)[1].content
                   /\ ~file[1].isModified ]_vars

\* C22 (as claimed): after renameFile on a file that has an open tab, the
\* tab's name is the file's new name and its language the one looked up from
\* the new name's extension.
C22_RenameResyncsTab ==
  [][ LET id   == lastOp'.id
          file == findItemById(files, id)
      IN  (/\ lastOp'.op = "renameFile"
           /\ file # <<>> /\ file[1].type = "file"
           /\ findTab(openedTabs, id) # <<>>)
          => \A k \in 1..Len(openedTabs') :
               openedTabs'[k].id = id
               => /\ openedTabs'[k].name = lastOp'.name
                  /\ openedTabs'[k].language
                       = getLanguageFromExtension(lastOp'.name) ]_vars

\* C23 (as claimed): renameFile(id, '') changes nothing: the item keeps its
\* name and its path and the forest is as before.
C23_RenameToEmptyRejected ==
  [][ (lastOp'.op = "renameFile" /\ lastOp'.name = <<>>)
      => /\ files' = files
         /\ selectedFile' = selectedFile ]_vars

\* C24 (as claimed): renameFile, deleteFile, updateFileContent and toggleFolder
\* with an id that no item of the forest has, and moveFile with a missing item,
\* a missing new parent or a file as new parent, leave the forest and the
\* selection as they were.
C24_MissingTargetNoOp ==
  [][ LET op == lastOp'.op
          missing(id) == findItemById(files, id) = <<>>
          parent == findItemById(files, lastOp'.id2)
      IN  (\/ /\ op \in {"renameFile", "deleteFile", "updateFileContent", "toggleFolder"}
              /\ missing(lastOp'.id)
           \/ /\ op = "moveFile"
              /\ \/ missing(lastOp'.id)
                 \/ parent = <<>>
                 \/ parent[1].type = "file")
          => /\ files' = files
             /\ selectedFile' = selectedFile ]_vars

\* C25 (as claimed): searchFiles(query) returns, in depth-first pre-order,
\* exactly the items of the forest whose name contains the query when both
\* are lower-cased, returns nothing for an empty or blank query, and changes
\* no state.
C25_SearchFiles ==
  [][ LET query == lastOp'.name
          blank == \A i \in 1..Len(query) : query[i] \in WhiteSpace
          matches(item) == includes(toLowerCase(item.name), toLowerCase(query))
      IN  lastOp'.op = "searchFiles"
          => /\ lastOp'.results = IF blank THEN <<>>
                                  ELSE SelectSeq(Flatten(files), matches)
             /\ UNCHANGED <<treeVars, editorVars>> ]_vars

\* C26 (as claimed): a reload restores, for every persisted tab and in the
\* persisted order, a tab with the persisted id, name, language, path and
\* isModified whose buffer is its content record, or the empty string when
\* there is none; and, the tab list being persisted after every operation,
\* the restored tab list is the tab list as it was, buffers included.
C26_RestoreRoundTrip ==
  [][ lastOp'.op = "reload"
      => /\ sessionStorage.tabs # <<>>
         /\ Len(openedTabs') = Len(sessionStorage.tabs[1])
         /\ \A k \in 1..Len(openedTabs') :
              LET saved  == sessionStorage.tabs[1][k]
                  record == getItemContent(sessionStorage, saved.id)
              IN  /\ TabMeta(openedTabs'[k]) = saved
                  /\ openedTabs'[k].content = IF record = Null THEN "" ELSE record
         /\ openedTabs' = openedTabs ]_vars

\* C27 (as claimed): of the file entries an import is done with, one above
\* 500,000 bytes is not in the tree; one of at most 500,000 bytes whose
\* content arrived is a file under its listing's parent path, with that
\* content; and each has an entry in the log written since the import began.
C27_ImportFiles ==
  \A k \in 1..Len(importState.seen) :
    LET e == importState.seen[k]
        items == Flatten(files)
    IN  /\ e.size > MaxFileSize
           => \A j \in 1..Len(items) : items[j].path # e.parentPath \o Slash \o e.name
        /\ (e.size <= MaxFileSize /\ e.result = "ok")
           => \E j \in 1..Len(items) :
                /\ items[j].path = e.parentPath
                /\ \E c \in 1..Len(items[j].children) :
                     /\ items[j].children[c].name = e.name
                     /\ items[j].children[c].type = "file"
                     /\ items[j].children[c].content = e.content
        /\ \E j \in (importState.logsAt + 1)..Len(logs) : logs[j].arg = e.name

\* C28 (as claimed): when a fetch made after replaceFileSystem is rejected or
\* answered with a response that is not ok, every item of the tree is still
\* in the tree, every path is consistent, and the step appends a log entry
\* of type error or warning.
C28_ImportFailure ==
  [][ (/\ lastOp'.op \in {"contentsResponse", "dirResponse", "fileResponse"}
       /\ lastOp'.pre \in {"notok", "reject"})
      => /\ \A k \in 1..Len(Flatten(files)) :
              \E j \in 1..Len(Flatten(files')) :
                [Flatten(files')[j] EXCEPT !.children = <<>>]
                  = [Flatten(files)[k] EXCEPT !.children = <<>>]
         /\ PathsConsistent(files', <<>>)
         /\ \E j \in (Len(logs) + 1)..Len(logs') :
              logs'[j].type \in {"error", "warning"} ]_vars

\* C29 (as claimed): moveTab(fromIndex, toIndex) with both indices in range
\* puts the tab that was at fromIndex at toIndex and keeps the order of the
\* others; with any indices, the new tab list has the tabs of the old one,
\* each as many times, and nothing else.
C29_MoveTabPermutes ==
  [][ LET n    == Len(openedTabs)
          from == lastOp'.fromIndex
          to   == lastOp'.toIndex
          without(tabs, i) == SubSeq(tabs, 1, i) \o Drop(tabs, i + 2)
          count(tabs, t) == Cardinality({k \in 1..Len(tabs) : tabs[k] = t})
      IN  lastOp'.op = "moveTab"
          => /\ (from \in 0..(n - 1) /\ to \in 0..(n - 1))
                => /\ Len(openedTabs') = n
                   /\ openedTabs'[to + 1] = openedTabs[from + 1]
                   /\ without(openedTabs', to) = without(openedTabs, from)
             /\ Len(openedTabs') = n
             /\ \A k \in 1..Len(openedTabs') :
                  count(openedTabs', openedTabs'[k]) = count(openedTabs, openedTabs'[k]) ]_vars

\* C30: openTab(fileId), when the id is that of a file item and no tab has
\* it, appends one tab at the end of the tab list, with the item's name,
\* language, path and content and isModified false, and makes it the active
\* tab; when the id is that of no item or of a folder, the tab list, the
\* active tab, the selection and the two history stacks stay as they are.
\* (The item of an id is the one getFileById finds.)
C30_OpenTab ==
  [][ LET id   == lastOp'.id
          node == findItemById(files, id)
      IN  lastOp'.op = "openTab"
          => /\ (node # <<>> /\ node[1].type = "file" /\ findTab(openedTabs, id) = <<>>)
                => /\ openedTabs' = Append(openedTabs,
                                           TabInfo(id, node[1].name, node[1].language,
                                                   node[1].path, FALSE, node[1].content))
                   /\ activeTabId' = id
             /\ (node = <<>> \/ node[1].type = "folder")
                => UNCHANGED <<openedTabs, activeTabId, selectedFile, undoStack, redoStack>> ]_vars

\* C30 witness: README.md was renamed to docs and then opened as the second
\* tab; the tab has the new name and the language that goes with it.
C30_Witness ==
  /\ lastOp.op = "openTab" /\ lastOp.pre = "new" /\ lastOp.id = "readme"
  /\ Len(openedTabs) = 2
  /\ openedTabs[2].id = "readme"
  /\ openedTabs[2].name = N_docs
  /\ openedTabs[2].language = "plaintext"
  /\ activeTabId = "readme"

-----------------------------------------------------------------------------
(* C31 - C39.                                                              *)

\* C31 (as claimed): deleteFile("root") changes nothing of the tree store:
\* the forest, the selected file and the log stay as they are.
C31_DeleteRootChangesNothing ==
  [][ (lastOp'.op = "deleteFile" /\ lastOp'.id = "root")
      => /\ files' = files
         /\ selectedFile' = selectedFile
         /\ logs' = logs ]_vars

\* C32 (as claimed): every open tab's id is the id of an item of type file
\* that is in the forest.
C32_TabsPointToFiles ==
  \A k \in 1..Len(openedTabs) :
    \E j \in 1..Len(Flatten(files)) :
      /\ Flatten(files)[j].id = openedTabs[k].id
      /\ Flatten(files)[j].type = "file"

\* C33 (as claimed): the active tab id is null or the id of a tab in the tab
\* list.
C33_ActiveTabIsOpen ==
  activeTabId = Null \/ \E k \in 1..Len(openedTabs) : openedTabs[k].id = activeTabId

\* C34 (as claimed): the selected file is null or the id of an item of the
\* forest.
C34_SelectedFileExists ==
  selectedFile = Null \/ findItemById(files, selectedFile) # <<>>

\* C35 (as claimed): from every state with a non-empty undo stack,
\* undoLastAction followed at once by redoLastAction gives back the undo stack,
\* the redo stack, the tabs in their order and every tab's buffer.  (The two
\* operations are composed here from the operators their actions use.)
C35_UndoThenRedo ==
  undoStack # <<>>
  => LET lastAction == undoStack[Len(undoStack)]
         tabs1 == undoTabs(openedTabs, lastAction)
         undo1 == slice_0_m1(undoStack)
         redo1 == Append(redoStack, lastAction)
         lastRedoAction == redo1[Len(redo1)]
         tabs2 == redoTabs(tabs1, lastRedoAction)
         undo2 == Append(undo1, lastRedoAction)
         redo2 == slice_0_m1(redo1)
     IN  /\ undo2 = undoStack
         /\ redo2 = redoStack
         /\ Len(tabs2) = Len(openedTabs)
         /\ \A k \in 1..Len(tabs2) :
              /\ tabs2[k].id = openedTabs[k].id
              /\ tabs2[k].content = openedTabs[k].content

\* C36 (as claimed): an open tab whose isModified is false has the content of
\* the file item with its id as buffer, when there is such an item.
C36_UnmodifiedTabShowsFile ==
  \A k \in 1..Len(openedTabs) :
    LET file == findItemById(files, openedTabs[k].id)
    IN  (~openedTabs[k].isModified /\ file # <<>> /\ file[1].type = "file")
        => openedTabs[k].content = file[1].content

\* C37 (as claimed): no two children of one item have the same name.
C37_SiblingNamesDistinct ==
  \A k \in 1..Len(Flatten(files)) :
    LET children == Flatten(files)[k].children
    IN  \A i, j \in 1..Len(children) : children[i].name = children[j].name => i = j

\* C38 (as claimed): after a reload the active tab id is null or the id of
\* one of the restored tabs.
C38_RestoredActiveTabIsOpen ==
  [][ lastOp'.op = "reload"
      => \/ activeTabId' = Null
         \/ \E k \in 1..Len(openedTabs') : openedTabs'[k].id = activeTabId' ]_vars

\* C39 (as claimed): when the import appends the log entry "Loaded file" for
\* a file entry, the tree holds, under the item stored at the listing's
\* parent path, a file of that name with the fetched content.
C39_LoadedFileExists ==
  [][ (lastOp'.op = "fileResponse" /\ lastOp'.pre = "ok")
      => LET item  == Head(Head(importState.work).contents)
             items == Flatten(files')
         IN  \E j \in 1..Len(items) :
               /\ items[j].path = lastOp'.path
               /\ \E c \in 1..Len(items[j].children) :
                    /\ items[j].children[c].name = item.name
                    /\ items[j].children[c].type = "file"
                    /\ items[j].children[c].content = item.content ]_vars

=============================================================================
